---- MODULE Spec2Model ----
(***************************************************************************)
(* Payment-gated lease protocol of the nova-s3 storage server.             *)
(*                                                                         *)
(* The server is a single Node.js process: every handler runs to its next  *)
(* `await` without interruption, so one action of this model is one        *)
(* synchronous segment of a handler.  The segments of a request are split  *)
(* exactly where the handler awaits the blob store (s3_put, s3_get,        *)
(* s3_delete) or where the x402 middleware awaits the facilitator after    *)
(* the route handler has returned (settlement).  Awaits that touch no      *)
(* shared state (verifyMessage, formData, the facilitator's verify call    *)
(* made before the handler is entered) are folded into the segment that    *)
(* follows them.                                                           *)
(*                                                                         *)
(* Time is counted in ticks; a day has TicksPerDay ticks.  Date.setDate    *)
(* is modelled for a server whose time zone has no daylight-saving shift   *)
(* (a calendar day is TicksPerDay ticks).                                  *)
(***************************************************************************)
EXTENDS Integers, Sequences, FiniteSets, Bags, TLC

VARIABLES
    now,             \* the server clock (Date.now(), new Date(), datetime('now'))
    expirationDays,  \* config.file.expirationDays, fixed when the process starts
    files,           \* the `files` table of AuthStore: file_key -> row
    blobs,           \* the blob store behind novaS3Client: key -> object
    paidAddresses,   \* the process-wide Set of payment.ts
    pending,         \* bag of requests suspended at an await
    resp,            \* the response being sent, with the request it answers
    advances,        \* how many times the clock has advanced
    client,          \* the call in progress in the client library (StorageClient)
    settledProofs    \* the payments the facilitator has settled (each proof settles once)

vars == <<now, expirationDays, files, blobs, paidAddresses, pending, resp, advances, client,
          settledProofs>>

----------------------------------------------------------------------------
(* Bounds of the model *)

TicksPerDay == 2      \* resolution of the clock
MaxAdvances == 2      \* how often the clock advances in one behaviour
MaxBlobs == 2         \* objects the blob store holds at most
MaxPending == 2       \* requests suspended at an await at the same time
MaxExtraDays == 1     \* FILE_EXPIRATION_DAYS set to up to this many days above the default
UploadWindow == 1     \* uploads arrive before the clock has advanced this often
MaxExpiryDays == 32   \* renewals are admitted while the new expiry is within this horizon

(* Program constants *)

DefaultExpirationDays == 10       \* config.ts: FILE_EXPIRATION_DAYS default
RenewDays == 10                   \* storage.ts: newExpires.setDate(getDate() + 10)
MaxSizeBytes == 1000 * 1000 * 1000 \* config.ts: MAX_FILE_SIZE default

----------------------------------------------------------------------------
(* Strings *)

NoHeader == "<missing>"

\* The wallet addresses requests name in X-Wallet-Address: account.address is
\* the mixed-case (checksummed) form, and any other spelling can be sent too.
ClientAddrs == {"0xAA", "0xBB"}
Addrs == ClientAddrs \cup {"0xaa"}

\* String.prototype.toLowerCase on the addresses of the model.
toLowerCase(s) ==
    CASE s = "0xAA" -> "0xaa"
      [] s = "0xBB" -> "0xbb"
      [] OTHER -> s

\* The private keys that sign: a wallet is named by its lower-case address.
Wallets == {"0xaa", "0xbb"}

\* file.name.replace(/[^a-zA-Z0-9._-]/g, "_")
SanitizeName(name) ==
    CASE name = "a b" -> "a_b"
      [] OTHER -> name

----------------------------------------------------------------------------
(* Dates.  The table stores dates as the text Date.toISOString() returns;    *)
(* SQLite's datetime('now') returns 'YYYY-MM-DD HH:MM:SS'.  Both texts are   *)
(* modelled by their date part, the separator and the time part.            *)

toISOString(t) == [date |-> t \div TicksPerDay, sep |-> "T", time |-> t % TicksPerDay]

SqliteDatetimeNow(t) == [date |-> t \div TicksPerDay, sep |-> " ", time |-> t % TicksPerDay]

\* new Date(text).getTime()
ParseDate(text) == text.date * TicksPerDay + text.time

\* Code point of the separator character.
CharCode(c) == IF c = " " THEN 32 ELSE 84

\* SQLite's `<` on two TEXT values: byte-wise comparison.
TextLess(a, b) ==
    \/ a.date < b.date
    \/ /\ a.date = b.date
       /\ \/ CharCode(a.sep) < CharCode(b.sep)
          \/ a.sep = b.sep /\ a.time < b.time

\* d = new Date(t); d.setDate(d.getDate() + days); d.getTime()
AddDays(t, days) == t + days * TicksPerDay

----------------------------------------------------------------------------
(* Keys, messages, signatures *)

MakeKey(owner, ts, name) == [owner |-> owner, ts |-> ts, name |-> name]

NoKey == MakeKey("", 0, "")

\* A key no upload produces.
GhostKey == MakeKey("0xbb", 0, "ghost")

\* `${walletAddress.toLowerCase()}/${Date.now()}-${sanitized file name}`
GenerateFileKey(walletAddress, t, fileName) ==
    MakeKey(toLowerCase(walletAddress), t, SanitizeName(fileName))

\* The message each route hands to verifyMessage.
ReadMessage(fileKey) == [text |-> "", key |-> fileKey]
ListMessage == [text |-> "list-files", key |-> NoKey]
InfoMessage(fileKey) == [text |-> "", key |-> fileKey]
DeleteMessage(fileKey) == [text |-> "delete:", key |-> fileKey]
RenewMessage(fileKey) == [text |-> "renew:", key |-> fileKey]

MissingSig == [kind |-> "missing", signer |-> "", msg |-> ListMessage]
MalformedSig == [kind |-> "malformed", signer |-> "", msg |-> ListMessage]

\* account.signMessage({ message }) by wallet w
SignMessage(w, m) == [kind |-> "ok", signer |-> w, msg |-> m]

\* viem verifyMessage: recovers the signer of `message` from `signature` and
\* compares it with `address` without regard to case; malformed input throws.
verifyMessage(address, message, signature) ==
    IF signature.kind # "ok" THEN "throws"
    ELSE IF signature.msg = message /\ signature.signer = toLowerCase(address)
         THEN "true" ELSE "false"

----------------------------------------------------------------------------
(* AuthStore: the lease ledger *)

ZeroDate == toISOString(0)

NoRecord ==
    [fileKey |-> NoKey, ownerAddress |-> "", originalFilename |-> "",
     contentType |-> "", size |-> 0, uploadedAt |-> ZeroDate, expiresAt |-> ZeroDate]

\* INSERT OR REPLACE: an existing file_key is no error.
recordUploadNeverThrows(tbl, record) == FALSE

\* INSERT INTO files ...: the PRIMARY KEY makes it throw on an existing file_key.
recordUploadThrows(tbl, record) == record.fileKey \in DOMAIN tbl

\* An INSERT that stores the owner as the request spelled it.
recordUploadVerbatim(tbl, record) == (record.fileKey :> record) @@ tbl

recordUpload(tbl, record) ==
    (record.fileKey :> [record EXCEPT !.ownerAddress = toLowerCase(record.ownerAddress)]) @@ tbl

getFile(tbl, fileKey) == IF fileKey \in DOMAIN tbl THEN tbl[fileKey] ELSE NoRecord

\* isOwner without the comparison of the owner: any caller of an existing row.
isOwnerOfAnyRow(tbl, fileKey, address) == getFile(tbl, fileKey) # NoRecord

\* isOwner comparing the address as the caller spelled it.
isOwnerExact(tbl, fileKey, address) ==
    LET record == getFile(tbl, fileKey)
    IN  IF record = NoRecord THEN FALSE
        ELSE record.ownerAddress = address

isOwner(tbl, fileKey, address) ==
    LET record == getFile(tbl, fileKey)
    IN  IF record = NoRecord THEN FALSE
        ELSE toLowerCase(record.ownerAddress) = toLowerCase(address)

\* isExpired that counts the instant of the expiry as expired.
isExpiredAtExpiry(tbl, fileKey, serverTime) ==
    LET record == getFile(tbl, fileKey)
    IN  IF record = NoRecord THEN TRUE
        ELSE serverTime >= ParseDate(record.expiresAt)

\* isExpired with the comparison turned around.
isExpiredInverted(tbl, fileKey, serverTime) ==
    LET record == getFile(tbl, fileKey)
    IN  IF record = NoRecord THEN TRUE
        ELSE serverTime < ParseDate(record.expiresAt)

isExpired(tbl, fileKey, serverTime) ==
    LET record == getFile(tbl, fileKey)
    IN  IF record = NoRecord THEN TRUE
        ELSE serverTime > ParseDate(record.expiresAt)

\* SELECT ... WHERE owner_address = ? (the argument lower-cased)
OwnedRows(tbl, ownerAddress) ==
    {tbl[k] : k \in {x \in DOMAIN tbl : tbl[x].ownerAddress = toLowerCase(ownerAddress)}}

\* ORDER BY uploaded_at DESC: rows with equal uploaded_at come in any order.
IsUploadedDesc(s) ==
    \A i \in 1..(Len(s) - 1) : ~TextLess(s[i].uploadedAt, s[i + 1].uploadedAt)

Orderings(S) ==
    {s \in [1..Cardinality(S) -> S] : \A r \in S : \E i \in 1..Cardinality(S) : s[i] = r}

getFilesByOwner(tbl, ownerAddress) ==
    {s \in Orderings(OwnedRows(tbl, ownerAddress)) : IsUploadedDesc(s)}

\* A cleanup whose WHERE clause matches no row.
SweptKeysNever(tbl, serverTime) == {}

\* A cleanup that compares the dates and ignores the time of day.
SweptKeysOfToday(tbl, serverTime) ==
    {k \in DOMAIN tbl : tbl[k].expiresAt.date <= SqliteDatetimeNow(serverTime).date}

\* DELETE FROM files WHERE expires_at < datetime('now')
SweptKeys(tbl, serverTime) ==
    {k \in DOMAIN tbl : TextLess(tbl[k].expiresAt, SqliteDatetimeNow(serverTime))}

cleanupExpiredRecords(tbl, serverTime) ==
    [k \in DOMAIN tbl \ SweptKeys(tbl, serverTime) |-> tbl[k]]

\* A DELETE without its WHERE clause.
deleteEveryRecord(tbl, fileKey) == << >>

deleteRecord(tbl, fileKey) == [k \in DOMAIN tbl \ {fileKey} |-> tbl[k]]

\* an UPDATE that writes nothing
updateExpiresAtDropped(table, fileKey, expiresAt) == table

\* UPDATE files SET expires_at = ? WHERE file_key = ?
updateExpiresAt(tbl, fileKey, expiresAt) ==
    [k \in DOMAIN tbl |-> IF k = fileKey THEN [tbl[k] EXCEPT !.expiresAt = expiresAt] ELSE tbl[k]]

----------------------------------------------------------------------------
(* NovaS3Client: the blob store *)

NoBody == "<none>"

\* Buffer.from(value).toString("base64") and Buffer.from(text, "base64")
Base64Encode(bytes) ==
    CASE bytes = "hello" -> "aGVsbG8="
      [] bytes = "world" -> "d29ybGQ="
      [] OTHER -> bytes

Base64Decode(text) ==
    CASE text = "aGVsbG8=" -> "hello"
      [] text = "d29ybGQ=" -> "world"
      [] OTHER -> text

\* The backend's answers to a put and to a delete.
PutOutcomes == {"true", "false", "throws"}
DeleteOutcomes == {"ok", "throws"}
GetOutcomes == {"ok", "throws"}

s3_put(store, key, value, content_type) ==
    (key :> [value |-> Base64Encode(value), content_type |-> content_type]) @@ store

\* s3_get that hands back the stored text as it is
s3_getUndecoded(store, key) == IF key \in DOMAIN store THEN store[key].value ELSE "null"

\* null on a 404 of the backend
s3_get(store, key) == IF key \in DOMAIN store THEN Base64Decode(store[key].value) ELSE "null"

s3_delete(store, key) == [k \in DOMAIN store \ {key} |-> store[k]]

\* POST /v1/s3/list with { prefix }: the keys whose first segment is the prefix,
\* every key when there is none.
s3_list(store, opts) ==
    [keys |-> {k \in DOMAIN store : opts.prefix = "" \/ k.owner = opts.prefix}]

----------------------------------------------------------------------------
(* Requests and responses *)

NoFile == [present |-> FALSE, name |-> "", type |-> "", size |-> 0, bytes |-> NoBody]

UploadFiles ==
    { [present |-> TRUE, name |-> "a b", type |-> "", size |-> 5, bytes |-> "hello"],
      [present |-> TRUE, name |-> "a_b", type |-> "text/plain", size |-> 5, bytes |-> "world"] }

BigFile == [present |-> TRUE, name |-> "big", type |-> "", size |-> MaxSizeBytes + 1, bytes |-> "hello"]

\* What a request carried and what it was answered.  `effects` records which
\* writes the request has made to the ledger and to the blob store so far.
Request(op, addr, key, sig, proof) ==
    [op |-> op, addr |-> addr, key |-> key, sig |-> sig, proof |-> proof,
     status |-> 0, record |-> NoRecord, body |-> NoBody, contentType |-> "",
     list |-> <<>>, isExpired |-> FALSE, oldExpires |-> ZeroDate, newExpires |-> ZeroDate,
     effects |-> {}]

NoRequest == Request("none", NoHeader, NoKey, MissingSig, "none")

Answer(req, status) == [req EXCEPT !.status = status]

\* A request suspended at an await.
Suspended(pc, req, file, result) == [pc |-> pc, req |-> req, file |-> file, result |-> result]

Suspend(p) == pending' = pending (+) SetToBag({p})
Resume(p, q) == pending' = (pending (-) SetToBag({p})) (+) SetToBag({q})
Finish(p) == pending' = pending (-) SetToBag({p})

PendingSet == BagToSet(pending)

\* A response that replaces the handler's: none of its fields survive.
Replace(req, status) ==
    [Request(req.op, req.addr, req.key, req.sig, req.proof)
        EXCEPT !.status = status, !.effects = req.effects]

Did(req, effect) == [req EXCEPT !.effects = @ \cup {effect}]

----------------------------------------------------------------------------
(* payment.ts: the x402 middleware, mounted on "*" before the routes *)

RequestPath(op) ==
    CASE op = "upload" -> "/upload"
      [] op = "renew" -> "/renew/"
      [] op = "list" -> "/files"
      [] op = "info" -> "/file-info/"
      [] OTHER -> "/file/"

\* protectedPaths without the "/renew" prefix.
isProtectedPathUploadOnly(requestPath) == requestPath = "/upload"

\* protectedPaths: "/upload" exactly, "/renew" as a prefix
isProtectedPath(requestPath) == requestPath = "/upload" \/ requestPath = "/renew/"

SettleOutcomes == {"settled", "failed"}

\* The well-formed payment proofs a client holds: two distinct signed payments.
ValidProofs == {"valid", "valid-2"}

\* middleware: a protected path goes through paidAwareMiddleware(c, next), which
\* calls next() only for a payment proof the facilitator verifies, and answers
\* 402 otherwise; any other path goes straight to next().
PaymentGatePasses(op, proof, facilitator) ==
    isProtectedPath(RequestPath(op)) => (proof \in ValidProofs /\ facilitator = "ok")

----------------------------------------------------------------------------
(* storage-client.ts: a call of uploadBuffer or renewFile in the client     *)
(* library.  The server's answers are inputs of the call.                   *)

MaxCalls == 3         \* calls the client makes in one behaviour

\* What fetch resolves to: a status, or no response at all (fetch rejects).
NetworkError == 0
AnswerStatuses == {200, 400, 401, 402, 403, 404, 500}

\* response.ok
ResponseOk(status) == status >= 200 /\ status <= 299

\* response.status === 402
NeedsPayment(status) == status = 402

\* The payment headers of a request: none, or the payload created for the
\* challenge of a 402 answer.
NoPayment == [challenge |-> 0]
encodePaymentSignatureHeader(challenge) == [challenge |-> challenge]

ClientRequest(op, payment) == [op |-> op, payment |-> payment]

ServerAnswer(status, challenge) == [status |-> status, challenge |-> challenge]

NoCall ==
    [pc |-> "idle", op |-> "none", sent |-> <<>>, answers |-> <<>>,
     result |-> "none", calls |-> 0, challenges |-> 0]

\* return { success: ... }
Returned(call, result) == [call EXCEPT !.pc = "done", !.result = result]

Received(call, status, challenge) ==
    [call EXCEPT !.answers = Append(@, ServerAnswer(status, challenge))]

\* uploadBuffer, renewFile: the call up to its first fetch, which carries no
\* payment header.
ClientCall(op) ==
    /\ client.pc \in {"idle", "done"}
    /\ client.calls < MaxCalls
    /\ client' = [client EXCEPT !.pc = "first", !.op = op,
                                !.sent = <<ClientRequest(op, NoPayment)>>,
                                !.answers = <<>>, !.result = "none", !.calls = @ + 1]
    /\ UNCHANGED <<now, expirationDays, settledProofs, files, blobs, paidAddresses, pending, resp, advances>>

\* uploadBuffer, renewFile after the first fetch: a rejected fetch is caught,
\* a 402 goes to handlePaymentAndUpload or handlePaymentAndRenew, any other
\* answer ends the call.  A 402 carries a challenge of its own.
FirstAnswer(status) ==
    /\ client.pc = "first"
    /\ client' =
          IF status = NetworkError THEN Returned(client, "failure")
          ELSE IF NeedsPayment(status)
               THEN [Received(client, status, client.challenges + 1)
                        EXCEPT !.pc = "paying", !.challenges = @ + 1]
          ELSE IF ~ResponseOk(status) THEN Returned(Received(client, status, 0), "failure")
          ELSE Returned(Received(client, status, 0), "success")
    /\ UNCHANGED <<now, expirationDays, settledProofs, files, blobs, paidAddresses, pending, resp, advances>>

PaymentOutcomes == {"signed", "throws"}

\* handlePaymentAndUpload, handlePaymentAndRenew up to the second fetch: the
\* payload is created for the challenge of the 402 answer; an exception on
\* the way is caught and ends the call.
PayAndRetry(outcome) ==
    /\ client.pc = "paying"
    /\ client' =
          IF outcome = "throws" THEN Returned(client, "failure")
          ELSE [client EXCEPT
                  !.pc = "second",
                  !.sent = Append(@, ClientRequest(client.op,
                      encodePaymentSignatureHeader(
                          client.answers[Len(client.answers)].challenge)))]
    /\ UNCHANGED <<now, expirationDays, settledProofs, files, blobs, paidAddresses, pending, resp, advances>>

\* A handler of the second answer that goes for another payment on a 402.
PaidAnswerRetrying(status) ==
    /\ client.pc = "second"
    /\ client' =
          IF status = NetworkError THEN Returned(client, "failure")
          ELSE IF NeedsPayment(status)
               THEN [Received(client, status, client.challenges + 1)
                        EXCEPT !.pc = "paying", !.challenges = @ + 1]
          ELSE IF ~ResponseOk(status) THEN Returned(Received(client, status, 0), "failure")
          ELSE Returned(Received(client, status, 0), "success")
    /\ UNCHANGED <<now, expirationDays, settledProofs, files, blobs, paidAddresses, pending, resp, advances>>

\* handlePaymentAndUpload, handlePaymentAndRenew after the second fetch: any
\* answer ends the call.
PaidAnswer(status) ==
    /\ client.pc = "second"
    /\ client' =
          IF status = NetworkError THEN Returned(client, "failure")
          ELSE IF ~ResponseOk(status)
               THEN Returned(Received(client, status,
                        IF NeedsPayment(status) THEN client.challenges + 1 ELSE 0), "failure")
          ELSE Returned(Received(client, status, 0), "success")
    /\ UNCHANGED <<now, expirationDays, settledProofs, files, blobs, paidAddresses, pending, resp, advances>>

----------------------------------------------------------------------------
(* storage-client.ts: what the client library signs and puts in the URL *)

\* downloadFile: signMessage({ message: fileKey })
ClientReadMessage(fileKey) == [text |-> "", key |-> fileKey]

\* listFiles: signMessage({ message: "list-files" })
ClientListMessage == [text |-> "list-files", key |-> NoKey]

\* getFileInfo: signMessage({ message: fileKey })
ClientInfoMessage(fileKey) == [text |-> "", key |-> fileKey]

\* A deleteFile that signs the key alone.
ClientDeleteMessageBare(fileKey) == [text |-> "", key |-> fileKey]

\* deleteFile: signMessage({ message: `delete:${fileKey}` })
ClientDeleteMessage(fileKey) == [text |-> "delete:", key |-> fileKey]

\* renewFile: signMessage({ message: `renew:${fileKey}` })
ClientRenewMessage(fileKey) == [text |-> "renew:", key |-> fileKey]

\* encodeURIComponent(fileKey): of the characters of a key (the hexadecimal
\* address, the digits of the timestamp, "-", and the sanitized name) only
\* the "/" after the address is escaped.
encodeURIComponent(fileKey) ==
    [owner |-> fileKey.owner, slash |-> "%2F", ts |-> fileKey.ts, name |-> fileKey.name]

\* c.req.param("key") on the routes `/:key{.+}`: the parameter with its
\* escapes decoded.
RequestParam(segment) ==
    IF segment.slash \in {"/", "%2F"}
        THEN MakeKey(segment.owner, segment.ts, segment.name)
        ELSE NoKey

----------------------------------------------------------------------------
(* The state after construction *)

Init ==
    /\ now = 0
    /\ expirationDays = DefaultExpirationDays
    /\ files = << >>
    /\ blobs = << >>
    /\ paidAddresses = {}
    /\ pending = EmptyBag
    /\ resp = NoRequest
    /\ advances = 0
    /\ client = NoCall
    /\ settledProofs = {}

CanSuspend == BagCardinality(pending) < MaxPending

\* One response is observed at a time: a handler segment runs when the
\* response of the segment before it has left the server.
Quiet == resp = NoRequest

Deliver ==
    /\ resp # NoRequest
    /\ resp' = NoRequest
    /\ UNCHANGED <<now, expirationDays, settledProofs, client, files, blobs, paidAddresses, pending, advances>>

\* The clock advances by a tick, or by a day more than a renewal adds.
ClockSteps == {1, (RenewDays + 1) * TicksPerDay}

Tick(step) ==
    /\ Quiet
    /\ advances < MaxAdvances
    /\ now' = now + step
    /\ advances' = advances + 1
    /\ UNCHANGED <<expirationDays, settledProofs, client, files, blobs, paidAddresses, pending, resp>>

----------------------------------------------------------------------------
(* POST /upload *)

ContentTypeOf(file) == IF file.type = "" THEN "application/octet-stream" ELSE file.type

UploadKeysInFlight == {p.req.key : p \in {q \in PendingSet : q.req.op = "upload"}}

\* An Upload that does not look at the size of the file.
UploadAnySize(addr, file, proof, facilitator) ==
    LET req == Request("upload", addr, NoKey, MissingSig, proof)
        fileKey == GenerateFileKey(addr, now, file.name)
        Reject(status) == resp' = Answer(req, status) /\ UNCHANGED pending
    IN  /\ Quiet
        /\ IF ~PaymentGatePasses("upload", proof, facilitator) THEN Reject(402)
           ELSE IF addr = NoHeader THEN Reject(400)
           ELSE IF ~file.present THEN Reject(400)
           ELSE /\ CanSuspend
                /\ advances < UploadWindow
                /\ Cardinality(DOMAIN blobs \cup UploadKeysInFlight \cup {fileKey}) <= MaxBlobs
                /\ Suspend(Suspended("s3_put", [req EXCEPT !.key = fileKey], file, "none"))
                /\ UNCHANGED resp
        /\ UNCHANGED <<now, expirationDays, settledProofs, client, files, blobs, paidAddresses, advances>>

\* The middleware, then the handler up to `await novaS3Client.s3_put(...)`.
Upload(addr, file, proof, facilitator) ==
    LET req == Request("upload", addr, NoKey, MissingSig, proof)
        fileKey == GenerateFileKey(addr, now, file.name)
        Reject(status) == resp' = Answer(req, status) /\ UNCHANGED pending
    IN  /\ Quiet
        /\ IF ~PaymentGatePasses("upload", proof, facilitator) THEN Reject(402)
           ELSE IF addr = NoHeader THEN Reject(400)
           ELSE IF ~file.present THEN Reject(400)
           ELSE IF file.size > MaxSizeBytes THEN Reject(400)
           ELSE /\ CanSuspend
                /\ advances < UploadWindow
                /\ Cardinality(DOMAIN blobs \cup UploadKeysInFlight \cup {fileKey}) <= MaxBlobs
                /\ Suspend(Suspended("s3_put", [req EXCEPT !.key = fileKey], file, "none"))
                /\ UNCHANGED resp
        /\ UNCHANGED <<now, expirationDays, settledProofs, client, files, blobs, paidAddresses, advances>>

\* The blob store handles the put.
UploadPut(p, outcome) ==
    /\ Quiet
    /\ p.pc = "s3_put"
    /\ IF outcome = "true"
          THEN /\ blobs' = s3_put(blobs, p.req.key, p.file.bytes, ContentTypeOf(p.file))
               /\ Resume(p, [p EXCEPT !.pc = "s3_put_done", !.result = outcome,
                                      !.req = Did(p.req, "blob_put")])
          ELSE /\ blobs' = blobs
               /\ Resume(p, [p EXCEPT !.pc = "s3_put_done", !.result = outcome])
    /\ UNCHANGED <<now, expirationDays, settledProofs, client, files, paidAddresses, resp, advances>>

\* A handler that inserts the row whatever the blob store answered.
UploadRecordUnchecked(p) ==
    LET uploadedAt == now
        expiresAt == AddDays(uploadedAt, expirationDays)
        record == [fileKey |-> p.req.key, ownerAddress |-> p.req.addr,
                   originalFilename |-> p.file.name, contentType |-> ContentTypeOf(p.file),
                   size |-> p.file.size, uploadedAt |-> toISOString(uploadedAt),
                   expiresAt |-> toISOString(expiresAt)]
    IN  /\ Quiet
        /\ p.pc = "s3_put_done"
        /\ IF recordUploadThrows(files, record)
              THEN /\ resp' = Answer(p.req, 500)
                   /\ Finish(p)
                   /\ files' = files
              ELSE /\ files' = recordUpload(files, record)
                   /\ Resume(p, [p EXCEPT !.pc = "settle",
                                   !.req = [Did(Answer(p.req, 200), "row_insert")
                                               EXCEPT !.record = record]])
                   /\ resp' = resp
        /\ UNCHANGED <<now, expirationDays, settledProofs, client, blobs, paidAddresses, advances>>

\* The handler after the put: the row is inserted and the handler returns.
UploadRecord(p) ==
    LET uploadedAt == now
        expiresAt == AddDays(uploadedAt, expirationDays)
        record == [fileKey |-> p.req.key, ownerAddress |-> p.req.addr,
                   originalFilename |-> p.file.name, contentType |-> ContentTypeOf(p.file),
                   size |-> p.file.size, uploadedAt |-> toISOString(uploadedAt),
                   expiresAt |-> toISOString(expiresAt)]
    IN  /\ Quiet
        /\ p.pc = "s3_put_done"
        /\ IF p.result # "true" \/ recordUploadThrows(files, record)
              THEN /\ resp' = Answer(p.req, 500)
                   /\ Finish(p)
                   /\ files' = files
              ELSE /\ files' = recordUpload(files, record)
                   /\ Resume(p, [p EXCEPT !.pc = "settle",
                                   !.req = [Did(Answer(p.req, 200), "row_insert")
                                               EXCEPT !.record = record]])
                   /\ resp' = resp
        /\ UNCHANGED <<now, expirationDays, settledProofs, client, blobs, paidAddresses, advances>>

\* paidAwareMiddleware after next(): it settles the payment of a handler
\* response below 400 and replaces the response by 402 when that fails.
Settle(p, outcome) ==
    /\ Quiet
    /\ p.pc = "settle"
    /\ resp' = IF outcome = "settled" THEN p.req ELSE Replace(p.req, 402)
    /\ Finish(p)
    /\ UNCHANGED <<now, expirationDays, settledProofs, client, files, blobs, paidAddresses, advances>>

\* The payments settled so far, and what the facilitator answers to a verify
\* call when it refuses a payment it has already settled.
SettledIds == {s.proof : s \in settledProofs}

VerifyOnce(proof) == IF proof \in SettledIds THEN "error" ELSE "ok"

\* paidAwareMiddleware after next(), against a facilitator that settles each
\* payment proof once: the settlement of a proof settled before fails, and
\* the response is replaced by 402.
SettleOnce(p) ==
    LET fresh == p.req.proof \notin SettledIds
    IN  /\ Quiet
        /\ p.pc = "settle"
        /\ resp' = IF fresh THEN p.req ELSE Replace(p.req, 402)
        /\ Finish(p)
        /\ settledProofs' =
                IF fresh
                THEN settledProofs \cup {[proof |-> p.req.proof, op |-> p.req.op, key |-> p.req.key]}
                ELSE settledProofs
        /\ UNCHANGED <<now, expirationDays, client, files, blobs, paidAddresses, advances>>

----------------------------------------------------------------------------
(* GET /file/:key *)

Read(addr, fileKey, sig) ==
    LET req == Request("read", addr, fileKey, sig, "none")
        record == getFile(files, fileKey)
        Reject(status) == resp' = Answer(req, status) /\ UNCHANGED <<pending, files>>
    IN  /\ Quiet
        /\ IF addr = NoHeader THEN Reject(400)
           ELSE IF sig.kind = "missing" THEN Reject(400)
           ELSE IF verifyMessage(addr, ReadMessage(fileKey), sig) # "true" THEN Reject(401)
           ELSE IF record = NoRecord THEN Reject(404)
           ELSE IF ~isOwner(files, fileKey, addr) THEN Reject(403)
           ELSE IF isExpired(files, fileKey, now)
                THEN /\ files' = deleteRecord(files, fileKey)
                     /\ resp' = Did(Answer(req, 410), "row_delete")
                     /\ UNCHANGED pending
           ELSE /\ CanSuspend
                /\ Suspend(Suspended("s3_get", [req EXCEPT !.record = record], NoFile, "none"))
                /\ UNCHANGED <<resp, files>>
        /\ UNCHANGED <<now, expirationDays, settledProofs, client, blobs, paidAddresses, advances>>

\* The blob store handles the get.
ReadGet(p, outcome) ==
    /\ Quiet
    /\ p.pc = "s3_get"
    /\ Resume(p, [p EXCEPT !.pc = "s3_get_done",
                           !.result = IF outcome = "ok" THEN s3_get(blobs, p.req.key)
                                      ELSE "throws"])
    /\ UNCHANGED <<now, expirationDays, settledProofs, client, files, blobs, paidAddresses, resp, advances>>

\* A handler that answers 404 for a missing object and keeps the row.
ReadRespondKeeping(p) ==
    /\ Quiet
    /\ p.pc = "s3_get_done"
    /\ IF p.result = "throws"
          THEN resp' = Answer(p.req, 500)
          ELSE IF p.result = "null"
          THEN resp' = Answer(p.req, 404)
          ELSE resp' = [Answer(p.req, 200) EXCEPT !.body = p.result,
                                                  !.contentType = p.req.record.contentType]
    /\ files' = files
    /\ Finish(p)
    /\ UNCHANGED <<now, expirationDays, settledProofs, client, blobs, paidAddresses, advances>>

\* The handler after the get.
ReadRespond(p) ==
    /\ Quiet
    /\ p.pc = "s3_get_done"
    /\ IF p.result = "throws"
          THEN resp' = Answer(p.req, 500) /\ files' = files
          ELSE IF p.result = "null"
          THEN /\ files' = deleteRecord(files, p.req.key)
               /\ resp' = IF p.req.key \in DOMAIN files
                             THEN Did(Answer(p.req, 404), "row_delete")
                             ELSE Answer(p.req, 404)
          ELSE /\ resp' = [Answer(p.req, 200) EXCEPT !.body = p.result,
                                                     !.contentType = p.req.record.contentType]
               /\ files' = files
    /\ Finish(p)
    /\ UNCHANGED <<now, expirationDays, settledProofs, client, blobs, paidAddresses, advances>>

----------------------------------------------------------------------------
(* GET /files *)

ListEntry(file) ==
    [fileKey |-> file.fileKey, filename |-> file.originalFilename,
     contentType |-> file.contentType, size |-> file.size,
     uploadedAt |-> file.uploadedAt, expiresAt |-> file.expiresAt]

\* The listing without the filter on the expiry.
AllFiles(rows, serverTime) == [i \in 1..Len(rows) |-> ListEntry(rows[i])]

\* files.filter(serverTime <= expiresAt).map(...)
ActiveFiles(rows, serverTime) ==
    LET Active(file) == serverTime <= ParseDate(file.expiresAt)
        kept == SelectSeq(rows, Active)
    IN  [i \in 1..Len(kept) |-> ListEntry(kept[i])]

List(addr, sig) ==
    LET req == Request("list", addr, NoKey, sig, "none")
    IN  /\ Quiet
        /\ IF addr = NoHeader THEN resp' = Answer(req, 400)
           ELSE IF sig.kind = "missing" THEN resp' = Answer(req, 400)
           ELSE IF verifyMessage(addr, ListMessage, sig) # "true" THEN resp' = Answer(req, 401)
           ELSE \E rows \in getFilesByOwner(files, addr) :
                    resp' = [Answer(req, 200) EXCEPT !.list = ActiveFiles(rows, now)]
        /\ UNCHANGED <<now, expirationDays, settledProofs, client, files, blobs, paidAddresses, pending, advances>>

----------------------------------------------------------------------------
(* GET /file-info/:key *)

\* A metadata fetch that treats an expired row as Read does: 410, row removed.
InfoPurging(addr, fileKey, sig) ==
    LET req == Request("info", addr, fileKey, sig, "none")
        record == getFile(files, fileKey)
        Reject(status) == resp' = Answer(req, status) /\ files' = files
    IN  /\ Quiet
        /\ IF addr = NoHeader THEN Reject(400)
           ELSE IF sig.kind = "missing" THEN Reject(400)
           ELSE IF verifyMessage(addr, InfoMessage(fileKey), sig) # "true" THEN Reject(401)
           ELSE IF record = NoRecord THEN Reject(404)
           ELSE IF ~isOwner(files, fileKey, addr) THEN Reject(403)
           ELSE IF isExpired(files, fileKey, now)
                THEN /\ files' = deleteRecord(files, fileKey)
                     /\ resp' = Did(Answer(req, 410), "row_delete")
           ELSE /\ resp' = [Answer(req, 200) EXCEPT !.record = record, !.isExpired = FALSE]
                /\ files' = files
        /\ UNCHANGED <<now, expirationDays, settledProofs, client, blobs, paidAddresses, pending, advances>>

Info(addr, fileKey, sig) ==
    LET req == Request("info", addr, fileKey, sig, "none")
        record == getFile(files, fileKey)
    IN  /\ Quiet
        /\ resp' =
              IF addr = NoHeader THEN Answer(req, 400)
              ELSE IF sig.kind = "missing" THEN Answer(req, 400)
              ELSE IF verifyMessage(addr, InfoMessage(fileKey), sig) # "true" THEN Answer(req, 401)
              ELSE IF record = NoRecord THEN Answer(req, 404)
              ELSE IF ~isOwner(files, fileKey, addr) THEN Answer(req, 403)
              ELSE [Answer(req, 200) EXCEPT !.record = record,
                                            !.isExpired = isExpired(files, fileKey, now)]
        /\ UNCHANGED <<now, expirationDays, settledProofs, client, files, blobs, paidAddresses, pending, advances>>

----------------------------------------------------------------------------
(* DELETE /file/:key *)

\* A Delete that checks the ownership before the existence of the row, and so
\* answers 403 for a key without a row.
DeleteOwnershipFirst(addr, fileKey, sig) ==
    LET req == Request("delete", addr, fileKey, sig, "none")
        record == getFile(files, fileKey)
        Reject(status) == resp' = Answer(req, status) /\ UNCHANGED pending
    IN  /\ Quiet
        /\ IF addr = NoHeader THEN Reject(400)
           ELSE IF sig.kind = "missing" THEN Reject(400)
           ELSE IF verifyMessage(addr, DeleteMessage(fileKey), sig) # "true" THEN Reject(401)
           ELSE IF ~isOwner(files, fileKey, addr) THEN Reject(403)
           ELSE IF record = NoRecord THEN Reject(404)
           ELSE /\ CanSuspend
                /\ Suspend(Suspended("s3_delete", [req EXCEPT !.record = record], NoFile, "none"))
                /\ UNCHANGED resp
        /\ UNCHANGED <<now, expirationDays, settledProofs, client, files, blobs, paidAddresses, advances>>

Delete(addr, fileKey, sig) ==
    LET req == Request("delete", addr, fileKey, sig, "none")
        record == getFile(files, fileKey)
        Reject(status) == resp' = Answer(req, status) /\ UNCHANGED pending
    IN  /\ Quiet
        /\ IF addr = NoHeader THEN Reject(400)
           ELSE IF sig.kind = "missing" THEN Reject(400)
           ELSE IF verifyMessage(addr, DeleteMessage(fileKey), sig) # "true" THEN Reject(401)
           ELSE IF record = NoRecord THEN Reject(404)
           ELSE IF ~isOwner(files, fileKey, addr) THEN Reject(403)
           ELSE /\ CanSuspend
                /\ Suspend(Suspended("s3_delete", [req EXCEPT !.record = record], NoFile, "none"))
                /\ UNCHANGED resp
        /\ UNCHANGED <<now, expirationDays, settledProofs, client, files, blobs, paidAddresses, advances>>

\* The blob store handles the delete; it reports whether it removed an object.
DeleteBlob(p, outcome) ==
    /\ Quiet
    /\ p.pc = "s3_delete"
    /\ IF outcome = "ok"
          THEN /\ blobs' = s3_delete(blobs, p.req.key)
               /\ Resume(p, [p EXCEPT !.pc = "s3_delete_done",
                               !.result = IF p.req.key \in DOMAIN blobs THEN "true" ELSE "false",
                               !.req = IF p.req.key \in DOMAIN blobs
                                          THEN Did(p.req, "blob_delete") ELSE p.req])
          ELSE /\ blobs' = blobs
               /\ Resume(p, [p EXCEPT !.pc = "s3_delete_done", !.result = "throws"])
    /\ UNCHANGED <<now, expirationDays, settledProofs, client, files, paidAddresses, resp, advances>>

\* A handler that removes the row only if it is still the row it looked up.
DeleteRespondIfUnchanged(p) ==
    /\ Quiet
    /\ p.pc = "s3_delete_done"
    /\ IF p.result = "throws"
          THEN resp' = Answer(p.req, 500) /\ files' = files
          ELSE IF getFile(files, p.req.key) = p.req.record
          THEN /\ files' = deleteRecord(files, p.req.key)
               /\ resp' = Did(Answer(p.req, 200), "row_delete")
          ELSE /\ files' = files
               /\ resp' = Answer(p.req, 200)
    /\ Finish(p)
    /\ UNCHANGED <<now, expirationDays, settledProofs, client, blobs, paidAddresses, advances>>

\* A handler that removes the row before it learns that the blob store threw.
DeleteRespondRemoving(p) ==
    /\ Quiet
    /\ p.pc = "s3_delete_done"
    /\ files' = deleteRecord(files, p.req.key)
    /\ resp' = IF p.result = "throws" THEN Answer(p.req, 500)
               ELSE IF p.req.key \in DOMAIN files THEN Did(Answer(p.req, 200), "row_delete")
               ELSE Answer(p.req, 200)
    /\ Finish(p)
    /\ UNCHANGED <<now, expirationDays, settledProofs, client, blobs, paidAddresses, advances>>

\* A handler that fails the request when the blob store removed nothing.
DeleteRespondStrict(p) ==
    /\ Quiet
    /\ p.pc = "s3_delete_done"
    /\ IF p.result # "true"
          THEN resp' = Answer(p.req, 500) /\ files' = files
          ELSE /\ files' = deleteRecord(files, p.req.key)
               /\ resp' = IF p.req.key \in DOMAIN files
                             THEN Did(Answer(p.req, 200), "row_delete")
                             ELSE Answer(p.req, 200)
    /\ Finish(p)
    /\ UNCHANGED <<now, expirationDays, settledProofs, client, blobs, paidAddresses, advances>>

\* The handler after the delete.
DeleteRespond(p) ==
    /\ Quiet
    /\ p.pc = "s3_delete_done"
    /\ IF p.result = "throws"
          THEN resp' = Answer(p.req, 500) /\ files' = files
          ELSE /\ files' = deleteRecord(files, p.req.key)
               /\ resp' = IF p.req.key \in DOMAIN files
                             THEN Did(Answer(p.req, 200), "row_delete")
                             ELSE Answer(p.req, 200)
    /\ Finish(p)
    /\ UNCHANGED <<now, expirationDays, settledProofs, client, blobs, paidAddresses, advances>>

----------------------------------------------------------------------------
(* POST /renew/:key *)

\* A renewal that always counts from the server time.
RenewedFromNow(serverTime, oldExpires) == AddDays(serverTime, RenewDays)

\* new Date(Math.max(serverTime, oldExpires.getTime())), then setDate(getDate() + 10)
RenewedExpiry(serverTime, oldExpires) ==
    LET base == IF serverTime >= oldExpires THEN serverTime ELSE oldExpires
    IN  AddDays(base, RenewDays)

\* A renewal that treats an expired row as Read does: it removes the row and
\* answers 410.
RenewUnexpired(addr, fileKey, sig, proof, facilitator) ==
    LET req == Request("renew", addr, fileKey, sig, proof)
        record == getFile(files, fileKey)
        newExpires == toISOString(RenewedExpiry(now, ParseDate(record.expiresAt)))
        Reject(status) == resp' = Answer(req, status) /\ UNCHANGED <<pending, files>>
    IN  /\ Quiet
        /\ IF ~PaymentGatePasses("renew", proof, facilitator) THEN Reject(402)
           ELSE IF addr = NoHeader THEN Reject(400)
           ELSE IF sig.kind = "missing" THEN Reject(400)
           ELSE IF verifyMessage(addr, RenewMessage(fileKey), sig) # "true" THEN Reject(401)
           ELSE IF record = NoRecord THEN Reject(404)
           ELSE IF ~isOwner(files, fileKey, addr) THEN Reject(403)
           ELSE IF isExpired(files, fileKey, now)
                THEN /\ files' = deleteRecord(files, fileKey)
                     /\ resp' = Did(Answer(req, 410), "row_delete")
                     /\ UNCHANGED pending
           ELSE /\ CanSuspend
                /\ ParseDate(newExpires) <= AddDays(0, MaxExpiryDays)
                /\ files' = updateExpiresAt(files, fileKey, newExpires)
                /\ Suspend(Suspended("settle",
                        [Did(Answer(req, 200), "row_update")
                            EXCEPT !.record = record, !.oldExpires = record.expiresAt,
                                   !.newExpires = newExpires],
                        NoFile, "none"))
                /\ UNCHANGED resp
        /\ UNCHANGED <<now, expirationDays, settledProofs, client, blobs, paidAddresses, advances>>

\* The middleware, then the whole handler (it awaits only verifyMessage).
Renew(addr, fileKey, sig, proof, facilitator) ==
    LET req == Request("renew", addr, fileKey, sig, proof)
        record == getFile(files, fileKey)
        newExpires == toISOString(RenewedExpiry(now, ParseDate(record.expiresAt)))
        Reject(status) == resp' = Answer(req, status) /\ UNCHANGED <<pending, files>>
    IN  /\ Quiet
        /\ IF ~PaymentGatePasses("renew", proof, facilitator) THEN Reject(402)
           ELSE IF addr = NoHeader THEN Reject(400)
           ELSE IF sig.kind = "missing" THEN Reject(400)
           ELSE IF verifyMessage(addr, RenewMessage(fileKey), sig) # "true" THEN Reject(401)
           ELSE IF record = NoRecord THEN Reject(404)
           ELSE IF ~isOwner(files, fileKey, addr) THEN Reject(403)
           ELSE /\ CanSuspend
                /\ ParseDate(newExpires) <= AddDays(0, MaxExpiryDays)
                /\ files' = updateExpiresAt(files, fileKey, newExpires)
                /\ Suspend(Suspended("settle",
                        [Did(Answer(req, 200), "row_update")
                            EXCEPT !.record = record, !.oldExpires = record.expiresAt,
                                   !.newExpires = newExpires],
                        NoFile, "none"))
                /\ UNCHANGED resp
        /\ UNCHANGED <<now, expirationDays, settledProofs, client, blobs, paidAddresses, advances>>

----------------------------------------------------------------------------
(* The hourly cleanup job *)

Sweep ==
    /\ Quiet
    /\ files' = cleanupExpiredRecords(files, now)
    /\ UNCHANGED <<now, expirationDays, settledProofs, client, blobs, paidAddresses, pending, resp, advances>>

----------------------------------------------------------------------------
(* What clients send *)

\* The keys a request can name: every key the ledger or the blob store holds,
\* and one that neither holds.
KnownKeys == DOMAIN files \cup DOMAIN blobs \cup {GhostKey}

\* The client library signs the route's own message with the key of the
\* account whose address it sends.
ClientSig(addr, m) == SignMessage(toLowerCase(addr), m)

\* Payment: no proof, a proof the facilitator rejects, a proof it accepts, or
\* a proof it fails to answer for.
Payments == {<<"none", "ok">>, <<"invalid", "ok">>, <<"valid", "ok">>, <<"valid", "error">>}

\* The accounts that send a request now, when requests do not overlap: none
\* while a request is suspended at an await or its response is being sent.
OneAtATime(accounts) == IF pending = EmptyBag /\ Quiet THEN accounts ELSE {}

\* Every account stores objects and calls through the client library, one
\* request after the other, while the clock advances and the cleanup job runs.
Next ==
    \/ Deliver
    \/ \E step \in ClockSteps : Tick(step)
    \/ Sweep
    \/ \E p \in PendingSet, outcome \in PutOutcomes : UploadPut(p, outcome)
    \/ \E p \in PendingSet : UploadRecord(p)
    \/ \E p \in PendingSet, outcome \in SettleOutcomes : Settle(p, outcome)
    \/ \E p \in PendingSet, outcome \in GetOutcomes : ReadGet(p, outcome)
    \/ \E p \in PendingSet : ReadRespond(p)
    \/ \E p \in PendingSet, outcome \in DeleteOutcomes : DeleteBlob(p, outcome)
    \/ \E p \in PendingSet : DeleteRespond(p)
    \/ \E addr \in OneAtATime(ClientAddrs), file \in UploadFiles, pay \in Payments :
            Upload(addr, file, pay[1], pay[2])
    \/ \E addr \in OneAtATime(ClientAddrs), fileKey \in KnownKeys :
            Read(addr, fileKey, ClientSig(addr, ReadMessage(fileKey)))
    \/ \E addr \in OneAtATime(ClientAddrs) : List(addr, ClientSig(addr, ListMessage))
    \/ \E addr \in OneAtATime(ClientAddrs), fileKey \in KnownKeys :
            Info(addr, fileKey, ClientSig(addr, InfoMessage(fileKey)))
    \/ \E addr \in OneAtATime(ClientAddrs), fileKey \in KnownKeys :
            Delete(addr, fileKey, ClientSig(addr, DeleteMessage(fileKey)))
    \/ \E addr \in OneAtATime(ClientAddrs), fileKey \in KnownKeys, pay \in Payments :
            Renew(addr, fileKey, ClientSig(addr, RenewMessage(fileKey)), pay[1], pay[2])

Spec == Init /\ [][Next]_vars

\* The same, on a server started with FILE_EXPIRATION_DAYS above the default.
InitConfigured ==
    /\ now = 0
    /\ expirationDays \in (DefaultExpirationDays + 1)..(DefaultExpirationDays + MaxExtraDays)
    /\ files = << >>
    /\ blobs = << >>
    /\ paidAddresses = {}
    /\ pending = EmptyBag
    /\ resp = NoRequest
    /\ advances = 0
    /\ client = NoCall
    /\ settledProofs = {}

SpecConfigured == InitConfigured /\ [][Next]_vars

\* Requests no client library builds: any address spelling or none, a missing
\* or malformed signature, any wallet's signature of any route's message,
\* a missing or oversized file.
HeaderAddrs == Addrs \cup {NoHeader}

MessagesOn(fileKey) ==
    {ReadMessage(fileKey), DeleteMessage(fileKey), RenewMessage(fileKey), ListMessage}

SignaturesOn(fileKey) ==
    {MissingSig, MalformedSig}
        \cup {SignMessage(w, m) : w \in Wallets, m \in MessagesOn(fileKey)}

NextAuth ==
    \/ Deliver
    \/ \E p \in PendingSet, outcome \in PutOutcomes : UploadPut(p, outcome)
    \/ \E p \in PendingSet : UploadRecord(p)
    \/ \E p \in PendingSet, outcome \in SettleOutcomes : Settle(p, outcome)
    \/ \E p \in PendingSet, outcome \in GetOutcomes : ReadGet(p, outcome)
    \/ \E p \in PendingSet : ReadRespond(p)
    \/ \E p \in PendingSet, outcome \in DeleteOutcomes : DeleteBlob(p, outcome)
    \/ \E p \in PendingSet : DeleteRespond(p)
    \/ \E addr \in OneAtATime(HeaderAddrs), file \in UploadFiles \cup {NoFile, BigFile},
          pay \in Payments :
            Upload(addr, file, pay[1], pay[2])
    \/ \E addr \in OneAtATime(HeaderAddrs), fileKey \in KnownKeys :
       \E sig \in SignaturesOn(fileKey) : Read(addr, fileKey, sig)
    \/ \E addr \in OneAtATime(HeaderAddrs), sig \in SignaturesOn(GhostKey) : List(addr, sig)
    \/ \E addr \in OneAtATime(HeaderAddrs), fileKey \in KnownKeys :
       \E sig \in SignaturesOn(fileKey) : Info(addr, fileKey, sig)
    \/ \E addr \in OneAtATime(HeaderAddrs), fileKey \in KnownKeys :
       \E sig \in SignaturesOn(fileKey) : Delete(addr, fileKey, sig)
    \/ \E addr \in OneAtATime(HeaderAddrs), fileKey \in KnownKeys :
       \E sig \in SignaturesOn(fileKey), pay \in Payments :
            Renew(addr, fileKey, sig, pay[1], pay[2])

SpecAuth == Init /\ [][NextAuth]_vars

\* Requests of one account that overlap: a request arrives while up to
\* MaxPending others are suspended at an await, the clock advances and the
\* cleanup job runs in between.
OverlapAddrs == {"0xAA"}

NextOverlap ==
    \/ Deliver
    \/ \E step \in ClockSteps : Tick(step)
    \/ Sweep
    \/ \E p \in PendingSet, outcome \in PutOutcomes : UploadPut(p, outcome)
    \/ \E p \in PendingSet : UploadRecord(p)
    \/ \E p \in PendingSet, outcome \in SettleOutcomes : Settle(p, outcome)
    \/ \E p \in PendingSet, outcome \in GetOutcomes : ReadGet(p, outcome)
    \/ \E p \in PendingSet : ReadRespond(p)
    \/ \E p \in PendingSet, outcome \in DeleteOutcomes : DeleteBlob(p, outcome)
    \/ \E p \in PendingSet : DeleteRespond(p)
    \/ \E addr \in OverlapAddrs, file \in UploadFiles : Upload(addr, file, "valid", "ok")
    \/ \E addr \in OverlapAddrs, fileKey \in DOMAIN files :
            Read(addr, fileKey, ClientSig(addr, ReadMessage(fileKey)))
    \/ \E addr \in OverlapAddrs, fileKey \in DOMAIN files :
            Delete(addr, fileKey, ClientSig(addr, DeleteMessage(fileKey)))
    \/ \E addr \in OverlapAddrs, fileKey \in DOMAIN files :
            Renew(addr, fileKey, ClientSig(addr, RenewMessage(fileKey)), "valid", "ok")

\* The server started with FILE_EXPIRATION_DAYS at its default or above it.
InitAnyLease ==
    /\ now = 0
    /\ expirationDays \in DefaultExpirationDays..(DefaultExpirationDays + MaxExtraDays)
    /\ files = << >>
    /\ blobs = << >>
    /\ paidAddresses = {}
    /\ pending = EmptyBag
    /\ resp = NoRequest
    /\ advances = 0
    /\ client = NoCall
    /\ settledProofs = {}

SpecOverlap == InitAnyLease /\ [][NextOverlap]_vars

\* The life of leases: every account stores the same file, pays for every
\* upload and renewal, and reads, renews and deletes keys one request after
\* the other, while the clock advances and the cleanup job runs.
LeaseFiles == {file \in UploadFiles : file.type = ""}

NextLease ==
    \/ Deliver
    \/ \E step \in ClockSteps : Tick(step)
    \/ Sweep
    \/ \E p \in PendingSet, outcome \in PutOutcomes : UploadPut(p, outcome)
    \/ \E p \in PendingSet : UploadRecord(p)
    \/ \E p \in PendingSet, outcome \in SettleOutcomes : Settle(p, outcome)
    \/ \E p \in PendingSet, outcome \in GetOutcomes : ReadGet(p, outcome)
    \/ \E p \in PendingSet : ReadRespond(p)
    \/ \E p \in PendingSet, outcome \in DeleteOutcomes : DeleteBlob(p, outcome)
    \/ \E p \in PendingSet : DeleteRespond(p)
    \/ \E addr \in OneAtATime(ClientAddrs), file \in LeaseFiles :
            Upload(addr, file, "valid", "ok")
    \/ \E addr \in OneAtATime(ClientAddrs), fileKey \in KnownKeys :
            Read(addr, fileKey, ClientSig(addr, ReadMessage(fileKey)))
    \/ \E addr \in OneAtATime(ClientAddrs), fileKey \in KnownKeys :
            Delete(addr, fileKey, ClientSig(addr, DeleteMessage(fileKey)))
    \/ \E addr \in OneAtATime(ClientAddrs), fileKey \in KnownKeys :
            Renew(addr, fileKey, ClientSig(addr, RenewMessage(fileKey)), "valid", "ok")

SpecLease == Init /\ [][NextLease]_vars

\* The catalogue of leases, on a server started with FILE_EXPIRATION_DAYS at
\* its default or above it: every account stores a file, pays for every
\* upload and renewal, lists its files and asks for their metadata, one
\* request after the other, while the cleanup job runs and the clock advances
\* by a tick or by the days of a lease, so that a request or the cleanup job
\* meets a row at the instant of its expiry, later on the day of its expiry,
\* and on a later day.
CatalogClockSteps == {1, RenewDays * TicksPerDay}

NextCatalog ==
    \/ Deliver
    \/ \E step \in CatalogClockSteps : Tick(step)
    \/ Sweep
    \/ \E p \in PendingSet, outcome \in PutOutcomes : UploadPut(p, outcome)
    \/ \E p \in PendingSet : UploadRecord(p)
    \/ \E p \in PendingSet, outcome \in SettleOutcomes : Settle(p, outcome)
    \/ \E addr \in OneAtATime(ClientAddrs), file \in LeaseFiles :
            Upload(addr, file, "valid", "ok")
    \/ \E addr \in OneAtATime(ClientAddrs) : List(addr, ClientSig(addr, ListMessage))
    \/ \E addr \in OneAtATime(ClientAddrs), fileKey \in KnownKeys :
            Info(addr, fileKey, ClientSig(addr, InfoMessage(fileKey)))
    \/ \E addr \in OneAtATime(ClientAddrs), fileKey \in KnownKeys :
            Renew(addr, fileKey, ClientSig(addr, RenewMessage(fileKey)), "valid", "ok")

SpecCatalog == InitAnyLease /\ [][NextCatalog]_vars

\* Keys that clients keep and name again: a client names a key that an upload
\* has returned or could have returned, whether or not the ledger still holds
\* it, and requests of the accounts overlap.
ReturnedKeys ==
    {GenerateFileKey(addr, t, file.name) : addr \in ClientAddrs, t \in 0..now, file \in LeaseFiles}

NextReuse ==
    \/ Deliver
    \/ \E p \in PendingSet, outcome \in PutOutcomes : UploadPut(p, outcome)
    \/ \E p \in PendingSet : UploadRecord(p)
    \/ \E p \in PendingSet, outcome \in SettleOutcomes : Settle(p, outcome)
    \/ \E p \in PendingSet, outcome \in GetOutcomes : ReadGet(p, outcome)
    \/ \E p \in PendingSet : ReadRespond(p)
    \/ \E p \in PendingSet, outcome \in DeleteOutcomes : DeleteBlob(p, outcome)
    \/ \E p \in PendingSet : DeleteRespond(p)
    \/ \E addr \in ClientAddrs, file \in LeaseFiles : Upload(addr, file, "valid", "ok")
    \/ \E addr \in ClientAddrs, fileKey \in ReturnedKeys \cup {GhostKey} :
            Read(addr, fileKey, ClientSig(addr, ReadMessage(fileKey)))
    \/ \E addr \in ClientAddrs, fileKey \in ReturnedKeys \cup {GhostKey} :
            Delete(addr, fileKey, ClientSig(addr, DeleteMessage(fileKey)))

SpecReuse == Init /\ [][NextReuse]_vars

\* The cleanup job among the requests: both accounts store a file and renew,
\* one request after the other, and the cleanup job runs between any two
\* handler segments.  Only the first account reads and deletes, so that a row
\* of the second account leaves the ledger through the cleanup job alone.  The
\* clock advances by a tick, by the days of a lease, or by both.
SweepClockSteps == {1, RenewDays * TicksPerDay, RenewDays * TicksPerDay + 1}

ReadingAddrs == {"0xAA"}

NextSweep ==
    \/ Deliver
    \/ \E step \in SweepClockSteps : Tick(step)
    \/ Sweep
    \/ \E p \in PendingSet, outcome \in PutOutcomes : UploadPut(p, outcome)
    \/ \E p \in PendingSet : UploadRecord(p)
    \/ \E p \in PendingSet, outcome \in SettleOutcomes : Settle(p, outcome)
    \/ \E p \in PendingSet, outcome \in GetOutcomes : ReadGet(p, outcome)
    \/ \E p \in PendingSet : ReadRespond(p)
    \/ \E p \in PendingSet, outcome \in DeleteOutcomes : DeleteBlob(p, outcome)
    \/ \E p \in PendingSet : DeleteRespond(p)
    \/ \E addr \in OneAtATime(ClientAddrs), file \in LeaseFiles :
            Upload(addr, file, "valid", "ok")
    \/ \E addr \in OneAtATime(ReadingAddrs), fileKey \in KnownKeys :
            Read(addr, fileKey, ClientSig(addr, ReadMessage(fileKey)))
    \/ \E addr \in OneAtATime(ReadingAddrs), fileKey \in KnownKeys :
            Delete(addr, fileKey, ClientSig(addr, DeleteMessage(fileKey)))
    \/ \E addr \in OneAtATime(ClientAddrs), fileKey \in KnownKeys :
            Renew(addr, fileKey, ClientSig(addr, RenewMessage(fileKey)), "valid", "ok")

SpecSweep == Init /\ [][NextSweep]_vars

\* Uploads that overlap: an account sends uploads of either file while
\* others are suspended at an await, within one millisecond of the server
\* clock, and reads the keys it was answered; every payment settles and no
\* key is deleted.
NextBurst ==
    \/ Deliver
    \/ \E p \in PendingSet, outcome \in PutOutcomes : UploadPut(p, outcome)
    \/ \E p \in PendingSet : UploadRecord(p)
    \/ \E p \in PendingSet : Settle(p, "settled")
    \/ \E p \in PendingSet, outcome \in GetOutcomes : ReadGet(p, outcome)
    \/ \E p \in PendingSet : ReadRespond(p)
    \/ \E addr \in ClientAddrs, file \in UploadFiles : Upload(addr, file, "valid", "ok")
    \/ \E addr \in ClientAddrs, fileKey \in DOMAIN files :
            Read(addr, fileKey, ClientSig(addr, ReadMessage(fileKey)))

SpecBurst == Init /\ [][NextBurst]_vars

\* The client library alone: calls of uploadBuffer and renewFile, one after
\* the other, against a server that may answer anything or not at all.
ClientOps == {"upload", "renew"}

NextClient ==
    \/ \E op \in ClientOps : ClientCall(op)
    \/ \E status \in AnswerStatuses \cup {NetworkError} : FirstAnswer(status)
    \/ \E outcome \in PaymentOutcomes : PayAndRetry(outcome)
    \/ \E status \in AnswerStatuses \cup {NetworkError} : PaidAnswer(status)

SpecClient == Init /\ [][NextClient]_vars

\* Requests as the client library builds them: the account's address as the
\* library spells it, the account's signature of the message the library
\* composes, the key escaped into the URL; Upload and Renew first without a
\* payment and then with one.
LibraryPayments == {<<"none", "ok">>, <<"valid", "ok">>}

NextLibrary ==
    \/ Deliver
    \/ \E p \in PendingSet, outcome \in PutOutcomes : UploadPut(p, outcome)
    \/ \E p \in PendingSet : UploadRecord(p)
    \/ \E p \in PendingSet, outcome \in SettleOutcomes : Settle(p, outcome)
    \/ \E p \in PendingSet, outcome \in GetOutcomes : ReadGet(p, outcome)
    \/ \E p \in PendingSet : ReadRespond(p)
    \/ \E p \in PendingSet, outcome \in DeleteOutcomes : DeleteBlob(p, outcome)
    \/ \E p \in PendingSet : DeleteRespond(p)
    \/ \E addr \in OneAtATime(ClientAddrs), file \in LeaseFiles, pay \in LibraryPayments :
            Upload(addr, file, pay[1], pay[2])
    \/ \E addr \in OneAtATime(ClientAddrs), fileKey \in KnownKeys :
            Read(addr, RequestParam(encodeURIComponent(fileKey)),
                 ClientSig(addr, ClientReadMessage(fileKey)))
    \/ \E addr \in OneAtATime(ClientAddrs) : List(addr, ClientSig(addr, ClientListMessage))
    \/ \E addr \in OneAtATime(ClientAddrs), fileKey \in KnownKeys :
            Info(addr, RequestParam(encodeURIComponent(fileKey)),
                 ClientSig(addr, ClientInfoMessage(fileKey)))
    \/ \E addr \in OneAtATime(ClientAddrs), fileKey \in KnownKeys :
            Delete(addr, RequestParam(encodeURIComponent(fileKey)),
                   ClientSig(addr, ClientDeleteMessage(fileKey)))
    \/ \E addr \in OneAtATime(ClientAddrs), fileKey \in KnownKeys, pay \in LibraryPayments :
            Renew(addr, RequestParam(encodeURIComponent(fileKey)),
                  ClientSig(addr, ClientRenewMessage(fileKey)), pay[1], pay[2])

SpecLibrary == Init /\ [][NextLibrary]_vars

----------------------------------------------------------------------------
(* Renewals of one account that overlap, paid with the two proofs it holds,
   against a facilitator that verifies and settles each proof once *)

ReplayFile == [present |-> TRUE, name |-> "a_b", type |-> "text/plain", size |-> 5, bytes |-> "world"]

NextReplay ==
    \/ Deliver
    \/ \E p \in PendingSet : UploadPut(p, "true")
    \/ \E p \in PendingSet : UploadRecord(p)
    \/ \E p \in PendingSet : SettleOnce(p)
    \/ \E addr \in OverlapAddrs, proof \in ValidProofs :
            Upload(addr, ReplayFile, proof, VerifyOnce(proof))
    \/ \E addr \in OverlapAddrs, fileKey \in DOMAIN files, proof \in ValidProofs :
            Renew(addr, fileKey, ClientSig(addr, RenewMessage(fileKey)), proof, VerifyOnce(proof))

SpecReplay == Init /\ [][NextReplay]_vars

----------------------------------------------------------------------------
(* NovaS3Client called directly, as tests/nova-s3-client.test.ts calls it:
   each call is logged with what it returned *)

MaxBlobCalls == 4

BlobKeys == {MakeKey("0xaa", 0, "a_b"), GhostKey}
BlobValues == {"hello", "world"}
ListPrefixes == {"", "0xaa", "0xbb"}

BlobCall(op, key, value, prefix, result, keys) ==
    [op |-> op, key |-> key, value |-> value, prefix |-> prefix, result |-> result, keys |-> keys]

Logged(call) ==
    /\ Len(client.sent) < MaxBlobCalls
    /\ client' = [client EXCEPT !.sent = Append(@, call), !.calls = @ + 1]

\* s3_put: true when the backend answers success, false when it answers
\* anything else, and an exception of axios goes to the caller.
PutCall(key, value, outcome) ==
    /\ Logged(BlobCall("s3_put", key, value, "", outcome, {}))
    /\ blobs' = IF outcome = "true" THEN s3_put(blobs, key, value, "text/plain") ELSE blobs
    /\ UNCHANGED <<now, expirationDays, settledProofs, files, paidAddresses, pending, resp, advances>>

\* s3_get: the decoded value, null on a 404, an exception on any other failure.
GetCall(key, outcome) ==
    /\ Logged(BlobCall("s3_get", key, "", "",
                       IF outcome = "ok" THEN s3_get(blobs, key) ELSE "throws", {}))
    /\ UNCHANGED <<now, expirationDays, settledProofs, files, blobs, paidAddresses, pending, resp, advances>>

\* s3_list: the backend's answer as it is.
ListCall(prefix) ==
    /\ Logged(BlobCall("s3_list", NoKey, "", prefix, "ok", s3_list(blobs, [prefix |-> prefix]).keys))
    /\ UNCHANGED <<now, expirationDays, settledProofs, files, blobs, paidAddresses, pending, resp, advances>>

\* s3_delete: true when the backend answers success; the backend removes the
\* object it holds, and answers either way for a key it does not hold.
DeleteCall(key, outcome) ==
    /\ key \in DOMAIN blobs => outcome # "false"
    /\ Logged(BlobCall("s3_delete", key, "", "", outcome, {}))
    /\ blobs' = IF outcome = "true" THEN s3_delete(blobs, key) ELSE blobs
    /\ UNCHANGED <<now, expirationDays, settledProofs, files, paidAddresses, pending, resp, advances>>

NextBlob ==
    \/ \E key \in BlobKeys, value \in BlobValues, outcome \in PutOutcomes : PutCall(key, value, outcome)
    \/ \E key \in BlobKeys, outcome \in GetOutcomes : GetCall(key, outcome)
    \/ \E prefix \in ListPrefixes : ListCall(prefix)
    \/ \E key \in BlobKeys, outcome \in PutOutcomes : DeleteCall(key, outcome)

SpecBlob == Init /\ [][NextBlob]_vars

----------------------------------------------------------------------------
(* Renewals of one key that overlap while the clock advances; no request and
   no job removes the row *)

NextRenewals ==
    \/ Deliver
    \/ \E step \in ClockSteps : Tick(step)
    \/ \E p \in PendingSet : UploadPut(p, "true")
    \/ \E p \in PendingSet : UploadRecord(p)
    \/ \E p \in PendingSet, outcome \in SettleOutcomes : Settle(p, outcome)
    \/ \E addr \in OverlapAddrs : Upload(addr, ReplayFile, "valid", "ok")
    \/ \E addr \in OverlapAddrs, fileKey \in DOMAIN files :
            Renew(addr, fileKey, ClientSig(addr, RenewMessage(fileKey)), "valid", "ok")

SpecRenewals == Init /\ [][NextRenewals]_vars

----------------------------------------------------------------------------
(* Metadata fetches and reads of any caller while leases run out: the
   accounts store a file, the clock advances, and requests on the keys carry
   any address and any signature *)

NextInfo ==
    \/ Deliver
    \/ \E step \in ClockSteps : Tick(step)
    \/ \E p \in PendingSet : UploadPut(p, "true")
    \/ \E p \in PendingSet : UploadRecord(p)
    \/ \E p \in PendingSet : Settle(p, "settled")
    \/ \E p \in PendingSet : ReadGet(p, "ok")
    \/ \E p \in PendingSet : ReadRespond(p)
    \/ \E addr \in OneAtATime(ClientAddrs) : Upload(addr, ReplayFile, "valid", "ok")
    \/ \E addr \in OneAtATime(HeaderAddrs), fileKey \in KnownKeys :
       \E sig \in SignaturesOn(fileKey) : Read(addr, fileKey, sig)
    \/ \E addr \in OneAtATime(HeaderAddrs), fileKey \in KnownKeys :
       \E sig \in SignaturesOn(fileKey) : Info(addr, fileKey, sig)

SpecInfo == Init /\ [][NextInfo]_vars

----------------------------------------------------------------------------
(* The cleanup timer over the whole life of a lease: one account stores a
   file and renews it, no request reads or deletes, time passes until every
   lease the bounds admit has run out, and the timer keeps firing *)

ClockEnd == (MaxExpiryDays + 2) * TicksPerDay

TimerSteps == {1, RenewDays * TicksPerDay}

\* Time passes, up to the end of the period observed.
Elapse(step) ==
    /\ Quiet
    /\ now + step <= ClockEnd
    /\ now' = now + step
    /\ advances' = IF advances < MaxAdvances THEN advances + 1 ELSE advances
    /\ UNCHANGED <<expirationDays, settledProofs, client, files, blobs, paidAddresses, pending, resp>>

NextTimer ==
    \/ Deliver
    \/ \E step \in TimerSteps : Elapse(step)
    \/ Sweep
    \/ \E p \in PendingSet : UploadPut(p, "true")
    \/ \E p \in PendingSet : UploadRecord(p)
    \/ \E p \in PendingSet, outcome \in SettleOutcomes : Settle(p, outcome)
    \/ \E addr \in OneAtATime(OverlapAddrs) : Upload(addr, ReplayFile, "valid", "ok")
    \/ \E addr \in OneAtATime(OverlapAddrs), fileKey \in DOMAIN files :
            Renew(addr, fileKey, ClientSig(addr, RenewMessage(fileKey)), "valid", "ok")

\* setInterval runs the cleanup every hour for as long as the process lives,
\* between any two handler segments; responses leave the server; time passes.
SpecTimer ==
    /\ Init
    /\ [][NextTimer]_vars
    /\ WF_vars(Deliver)
    /\ SF_vars(Sweep)
    /\ SF_vars(\E step \in TimerSteps : Elapse(step))

----------------------------------------------------------------------------
(* Uploads under any X-Wallet-Address: POST /upload checks that the header is
   present and nothing else about it, so an upload can name a string that is
   no address, here one that holds the separator of the key *)

SlashedAddr == "0xbb/x"

KeyAddrs == ClientAddrs \cup {SlashedAddr}

\* text.split("/") on the address part of a key
AddressSegments(text) == IF text = SlashedAddr THEN <<"0xbb", "x">> ELSE <<text>>

\* fileKey.split("/"): the segments of `${owner}/${ts}-${name}`; the last one
\* holds no separator, the sanitized name having none.
KeySegments(fileKey) ==
    AddressSegments(fileKey.owner) \o <<[ts |-> fileKey.ts, name |-> fileKey.name]>>

NextKeys ==
    \/ Deliver
    \/ \E step \in ClockSteps : Tick(step)
    \/ \E p \in PendingSet : UploadPut(p, "true")
    \/ \E p \in PendingSet : UploadRecord(p)
    \/ \E p \in PendingSet : Settle(p, "settled")
    \/ \E addr \in OneAtATime(KeyAddrs), file \in UploadFiles : Upload(addr, file, "valid", "ok")
    \/ \E addr \in OneAtATime(KeyAddrs), fileKey \in KnownKeys :
            Info(addr, fileKey, ClientSig(addr, InfoMessage(fileKey)))
    \/ \E addr \in OneAtATime(KeyAddrs), fileKey \in KnownKeys :
            Delete(addr, fileKey, ClientSig(addr, DeleteMessage(fileKey)))
    \/ \E p \in PendingSet : DeleteBlob(p, "ok")
    \/ \E p \in PendingSet : DeleteRespond(p)

SpecKeys == Init /\ [][NextKeys]_vars

----------------------------------------------------------------------------
(* Ledger and blob store drifting apart: requests of one account on every
   route overlap, on keys that uploads have returned *)

NextDrift ==
    \/ Deliver
    \/ \E p \in PendingSet : UploadPut(p, "true")
    \/ \E p \in PendingSet : UploadRecord(p)
    \/ \E p \in PendingSet : Settle(p, "settled")
    \/ \E p \in PendingSet, outcome \in GetOutcomes : ReadGet(p, outcome)
    \/ \E p \in PendingSet : ReadRespond(p)
    \/ \E p \in PendingSet, outcome \in DeleteOutcomes : DeleteBlob(p, outcome)
    \/ \E p \in PendingSet : DeleteRespond(p)
    \/ \E addr \in OverlapAddrs, file \in LeaseFiles : Upload(addr, file, "valid", "ok")
    \/ \E addr \in OverlapAddrs, fileKey \in ReturnedKeys :
            Read(addr, fileKey, ClientSig(addr, ReadMessage(fileKey)))
    \/ \E addr \in OverlapAddrs, fileKey \in ReturnedKeys :
            Info(addr, fileKey, ClientSig(addr, InfoMessage(fileKey)))
    \/ \E addr \in OverlapAddrs, fileKey \in ReturnedKeys :
            Delete(addr, fileKey, ClientSig(addr, DeleteMessage(fileKey)))
    \/ \E addr \in OverlapAddrs, fileKey \in ReturnedKeys :
            Renew(addr, fileKey, ClientSig(addr, RenewMessage(fileKey)), "valid", "ok")

SpecDrift == Init /\ [][NextDrift]_vars

----------------------------------------------------------------------------
(* The instant of the expiry: both accounts store a file and read, list and
   ask for metadata, one request after the other and each answered before
   the clock moves; the clock advances by a tick, by the days of a lease, or
   by both, so that requests meet a row before, at and after the instant of
   its expiry; the cleanup job runs in between *)

NextInstant ==
    \/ Deliver
    \/ \E step \in SweepClockSteps : pending = EmptyBag /\ Tick(step)
    \/ Sweep
    \/ \E p \in PendingSet : UploadPut(p, "true")
    \/ \E p \in PendingSet : UploadRecord(p)
    \/ \E p \in PendingSet : Settle(p, "settled")
    \/ \E p \in PendingSet : ReadGet(p, "ok")
    \/ \E p \in PendingSet : ReadRespond(p)
    \/ \E addr \in OneAtATime(ClientAddrs), file \in LeaseFiles :
            Upload(addr, file, "valid", "ok")
    \/ \E addr \in OneAtATime(ClientAddrs), fileKey \in KnownKeys :
            Read(addr, fileKey, ClientSig(addr, ReadMessage(fileKey)))
    \/ \E addr \in OneAtATime(ClientAddrs) : List(addr, ClientSig(addr, ListMessage))
    \/ \E addr \in OneAtATime(ClientAddrs), fileKey \in KnownKeys :
            Info(addr, fileKey, ClientSig(addr, InfoMessage(fileKey)))

SpecInstant == Init /\ [][NextInstant]_vars

----------------------------------------------------------------------------
(* Properties *)

\* The caller of the response `resp`: the wallet whose signature the request
\* carried, when that signature is a signature of `message` by the wallet the
\* X-Wallet-Address header names.
SignedBy(r, message) ==
    /\ r.addr # NoHeader
    /\ r.sig.kind = "ok"
    /\ r.sig.msg = message
    /\ \/ r.addr = "0xAA" /\ r.sig.signer = "0xaa"
       \/ r.addr = "0xaa" /\ r.sig.signer = "0xaa"
       \/ r.addr = "0xBB" /\ r.sig.signer = "0xbb"

\* The message the route of `r` verifies.
RouteMessage(r) ==
    CASE r.op = "delete" -> [text |-> "delete:", key |-> r.key]
      [] r.op = "renew" -> [text |-> "renew:", key |-> r.key]
      [] r.op = "list" -> [text |-> "list-files", key |-> NoKey]
      [] OTHER -> [text |-> "", key |-> r.key]

\* C1: Read, Info, Delete and Renew on a key answer 200 only to a caller whose
\* signature of the route's message verifies for the address it names and
\* whose wallet is, up to letter case, the owner the row of that key was
\* created with; List answers only rows whose owner is the caller's wallet.
OwnerOnlyAccess ==
    /\ (resp.op \in {"read", "info", "delete", "renew"} /\ resp.status = 200) =>
          /\ SignedBy(resp, RouteMessage(resp))
          /\ resp.record.fileKey = resp.key
          /\ resp.record.ownerAddress = resp.sig.signer
    /\ (resp.op = "list" /\ resp.status = 200) =>
          /\ SignedBy(resp, RouteMessage(resp))
          /\ \A i \in DOMAIN resp.list :
                /\ resp.list[i].fileKey \in DOMAIN files
                /\ files[resp.list[i].fileKey].ownerAddress = resp.sig.signer

\* An owner that sent its address in mixed case is answered with its object
\* while the ledger also holds a row of another owner.
OwnerOnlyAccessWitness ==
    /\ resp.op = "read" /\ resp.status = 200 /\ resp.addr = "0xAA"
    /\ resp.body # NoBody
    /\ \E k \in DOMAIN files : files[k].ownerAddress = "0xbb"

\* C2: a Read that carries a valid signature of the key by the wallet it
\* names, for a key whose row another wallet owns, is answered 403 without a
\* body, and the step leaves the ledger and the blob store as they were.
ForeignReadForbidden ==
    [][ ( /\ resp' # resp /\ resp'.op = "read"
          /\ SignedBy(resp', RouteMessage(resp'))
          /\ resp'.key \in DOMAIN files
          /\ files[resp'.key].ownerAddress # resp'.sig.signer )
        => ( /\ resp'.status = 403 /\ resp'.body = NoBody
             /\ resp'.effects = {}
             /\ files' = files /\ blobs' = blobs ) ]_vars

\* Wallet 0xbb read a key of 0xaa with its own valid signature.
ForeignReadForbiddenWitness ==
    /\ resp.op = "read" /\ resp.status = 403
    /\ SignedBy(resp, RouteMessage(resp)) /\ resp.sig.signer = "0xbb"
    /\ resp.key \in DOMAIN files /\ files[resp.key].ownerAddress = "0xaa"
    /\ resp.key \in DOMAIN blobs

\* A request that presents, for its key, the caller's signature of the message
\* of another route: the key itself to Delete or Renew, `delete:key` to Renew
\* or Read, `renew:key` to Delete or Read.
OtherRouteSignature(r) ==
    /\ r.op \in {"read", "delete", "renew"}
    /\ r.sig.kind = "ok"
    /\ r.sig.msg.key = r.key
    /\ r.sig.msg.text \in {"", "delete:", "renew:"}
    /\ r.sig.msg # RouteMessage(r)
    /\ SignedBy(r, r.sig.msg)

\* C3: a request that presents the signature of another route's message for
\* the same key is answered 401 and writes nothing.
CrossRouteSignatureUnauthenticated ==
    OtherRouteSignature(resp) => (resp.status = 401 /\ resp.effects = {})

\* The owner's signature of `delete:key` was presented to Renew on that key.
CrossRouteSignaturePaymentFirst ==
    /\ OtherRouteSignature(resp) /\ resp.op = "renew"
    /\ resp.sig.msg.text = "delete:"
    /\ resp.key \in DOMAIN files /\ files[resp.key].ownerAddress = resp.sig.signer
    /\ resp.status = 402

\* C4: Upload inserts a row and Renew extends an expiry only for a request
\* whose payment was verified and settled (the request is answered 200), and
\* a request answered with the payment challenge has written nothing to the
\* ledger or to the blob store.
WritesOnlyWhenSettled ==
    resp.op \in {"upload", "renew"} =>
        /\ (resp.effects \cap {"row_insert", "row_update"} # {}) =>
                (resp.proof = "valid" /\ resp.status = 200)
        /\ resp.status = 402 => resp.effects = {}

\* A renewal whose settlement failed was answered 402 and its row keeps the
\* extended expiry.
UnsettledRenewalKept ==
    /\ resp.op = "renew" /\ resp.status = 402 /\ resp.proof = "valid"
    /\ "row_update" \in resp.effects
    /\ resp.key \in DOMAIN files
    /\ ParseDate(files[resp.key].expiresAt)
          = AddDays(ParseDate(files[resp.key].uploadedAt), expirationDays + RenewDays)

\* C5: an Upload or a Renew that carries no payment proof is answered 402 and
\* writes nothing, whatever the wallet has paid for before; no request without
\* a proof is ever past the payment gate, and the set of paid addresses lets
\* none through.
FreshPaymentEveryTime ==
    [][ /\ ( /\ resp' # resp /\ resp'.op \in {"upload", "renew"}
             /\ resp'.proof = "none" )
           => ( /\ resp'.status = 402 /\ resp'.effects = {}
                /\ files' = files /\ blobs' = blobs )
        /\ \A p \in BagToSet(pending') :
              p.req.op \in {"upload", "renew"} => p.req.proof # "none"
      ]_vars

\* A wallet whose earlier upload and renewal went through asked for another
\* renewal without a proof.
FreshPaymentEveryTimeWitness ==
    /\ resp.op = "renew" /\ resp.status = 402 /\ resp.proof = "none"
    /\ SignedBy(resp, RouteMessage(resp))
    /\ resp.key \in DOMAIN files
    /\ files[resp.key].ownerAddress = resp.sig.signer
    /\ ParseDate(files[resp.key].expiresAt)
          > AddDays(ParseDate(files[resp.key].uploadedAt), expirationDays)

\* A Renew on an existing key by a caller that is not its owner, with the
\* caller's valid signature of `renew:key` and no payment proof.
ForeignRenewUnpaid(r) ==
    /\ r.op = "renew" /\ r.proof = "none"
    /\ SignedBy(r, RouteMessage(r))
    /\ r.key \in DOMAIN files
    /\ files[r.key].ownerAddress # r.sig.signer

\* C6: a Renew on an existing key by a caller that is not its owner and that
\* attached no payment proof is answered 403, never 402.
ForeignRenewForbiddenBeforePayment ==
    ForeignRenewUnpaid(resp) => resp.status = 403

\* Such a request was answered with the payment challenge.
ForeignRenewChallenged ==
    ForeignRenewUnpaid(resp) /\ resp.status = 402

\* The rows whose stored expiry a step changes.
Renewed == {k \in DOMAIN files \cap DOMAIN files' : files'[k].expiresAt # files[k].expiresAt}

Later(a, b) == IF a >= b THEN a ELSE b

\* C7: a renewal at server time `now` of a row with expiry E stores
\* max(now, E) + leaseDuration, leaseDuration being the configured lease
\* duration (config.file.expirationDays).
RenewalAddsConfiguredLease ==
    [][ \A k \in Renewed :
            ParseDate(files'[k].expiresAt)
                = AddDays(Later(now, ParseDate(files[k].expiresAt)), expirationDays)
      ]_vars

\* On a server configured with a lease above the default, a row was renewed
\* once before it expired: it holds the upload's lease and the renewal's days.
RenewedUnderConfiguredLease ==
    \E k \in DOMAIN files :
        /\ expirationDays > RenewDays
        /\ ParseDate(files[k].expiresAt)
              = AddDays(ParseDate(files[k].uploadedAt), expirationDays + RenewDays)

\* C8: a renewal at server time `now` stores an expiry that is not before the
\* old one and not before now + leaseDuration, leaseDuration being the lease a
\* fresh upload receives (config.file.expirationDays).
RenewalNotShorterThanUpload ==
    [][ \A k \in Renewed :
            /\ ParseDate(files'[k].expiresAt) >= ParseDate(files[k].expiresAt)
            /\ ParseDate(files'[k].expiresAt) >= AddDays(now, expirationDays)
      ]_vars

\* A renewal was answered that was counted from the server time (its new
\* expiry lies more than the renewal's days after the old one) on a server
\* whose configured lease is longer than the renewal's days: the new expiry is
\* that server time plus RenewDays, before that server time plus the lease.
RenewedShorterThanUpload ==
    /\ resp.op = "renew" /\ resp.status = 200
    /\ expirationDays > RenewDays
    /\ ParseDate(resp.newExpires) > AddDays(ParseDate(resp.oldExpires), RenewDays)
    /\ resp.key \in DOMAIN files /\ files[resp.key].expiresAt = resp.newExpires

\* C9: whatever requests overlap, the expiry stored for a key never decreases
\* from one state to the next while the key keeps its row.
ExpiryNeverDecreases ==
    [][ \A k \in DOMAIN files \cap DOMAIN files' :
            ParseDate(files'[k].expiresAt) >= ParseDate(files[k].expiresAt)
      ]_vars

\* Two renewals of one key are in flight at once, both having updated the row.
ConcurrentRenewals ==
    \E p \in PendingSet, q \in PendingSet :
        /\ p # q
        /\ p.pc = "settle" /\ q.pc = "settle"
        /\ p.req.op = "renew" /\ q.req.op = "renew"
        /\ p.req.key = q.req.key
        /\ p.req.key \in DOMAIN files
        /\ ParseDate(files[p.req.key].expiresAt)
              = AddDays(ParseDate(files[p.req.key].uploadedAt), expirationDays + 2 * RenewDays)

\* C10: a Read by the owner, at a server time after the expiry of the key's
\* row, is answered 410 without a body and removes the row; a Read reaches the
\* blob store only for a row that has not expired, and object bytes are
\* answered only by a Read that reached it.
ExpiredReadGone ==
    [][ /\ ( /\ resp' # resp /\ resp'.op = "read" /\ pending' = pending
             /\ SignedBy(resp', RouteMessage(resp'))
             /\ resp'.key \in DOMAIN files
             /\ files[resp'.key].ownerAddress = resp'.sig.signer
             /\ now > ParseDate(files[resp'.key].expiresAt) )
           => ( /\ resp'.status = 410 /\ resp'.body = NoBody
                /\ resp'.key \notin DOMAIN files'
                /\ blobs' = blobs )
        /\ \A p \in BagToSet(pending') \ BagToSet(pending) :
              p.pc = "s3_get" =>
                  /\ p.req.key \in DOMAIN files
                  /\ now <= ParseDate(files[p.req.key].expiresAt)
        /\ ( resp' # resp /\ resp'.op = "read" /\ resp'.body # NoBody )
           => \E p \in PendingSet : p.pc = "s3_get_done" /\ p.req = [resp' EXCEPT !.status = 0,
                                        !.body = NoBody, !.contentType = ""]
      ]_vars

\* The owner read a key after its expiry, before any sweep removed the row:
\* the answer is 410, the row is gone and the object is still in the blob store.
ExpiredReadGoneWitness ==
    /\ resp.op = "read" /\ resp.status = 410 /\ resp.body = NoBody
    /\ "row_delete" \in resp.effects
    /\ resp.key \notin DOMAIN files
    /\ resp.key \in DOMAIN blobs

\* C11: every entry of a List answer has an expiry that is not before the
\* server time of the call, and every entry is a row the ledger holds; rows
\* that have expired are left out although the ledger still holds them.
ListOmitsExpired ==
    (resp.op = "list" /\ resp.status = 200) =>
        \A i \in DOMAIN resp.list :
            /\ ParseDate(resp.list[i].expiresAt) >= now
            /\ resp.list[i].fileKey \in DOMAIN files
            /\ files[resp.list[i].fileKey].expiresAt = resp.list[i].expiresAt

\* The owner listed its files after the expiry of its row and before that row
\* was removed: the ledger still holds the row and the list is empty.
ListOmitsExpiredWitness ==
    /\ resp.op = "list" /\ resp.status = 200 /\ resp.list = <<>>
    /\ \E k \in DOMAIN files :
          /\ files[k].ownerAddress = resp.sig.signer
          /\ ParseDate(files[k].expiresAt) < now

\* A response to a Delete that carried the caller's valid signature of
\* `delete:key`, sent in a step that found no row of the key in the ledger.
DeleteOfAbsentKey ==
    /\ resp' # resp /\ resp'.op = "delete"
    /\ SignedBy(resp', RouteMessage(resp'))
    /\ resp'.key \notin DOMAIN files

\* C12: a correctly signed Delete of a key that has no row in the ledger is
\* not answered with an error, and it leaves the ledger as it was.
DeleteIdempotent ==
    [][ DeleteOfAbsentKey => (resp'.status < 400 /\ files' = files) ]_vars

\* C12, as the handler behaves: a correctly signed Delete that finds no row
\* of the key is answered 404 and writes nothing; a Delete whose row vanished
\* while it waited for the blob store removes no other row; in both cases the
\* ledger and the blob store stay as they were.
DeleteOfAbsentKeyNotFound ==
    [][ DeleteOfAbsentKey =>
            /\ files' = files /\ blobs' = blobs
            /\ pending' = pending => (resp'.status = 404 /\ resp'.effects = {})
            /\ pending' # pending => "row_delete" \notin resp'.effects
      ]_vars

\* A Read of a key found its row and waits for the blob store; since then the
\* object and the row of the key were deleted, and a second Delete of the key
\* by its owner was answered 404.
RepeatedDeleteNotFound ==
    /\ resp.op = "delete" /\ resp.status = 404
    /\ SignedBy(resp, RouteMessage(resp))
    /\ resp.key.owner = resp.sig.signer
    /\ resp.key \notin DOMAIN files /\ resp.key \notin DOMAIN blobs
    /\ \E p \in PendingSet :
          /\ p.req.op = "read" /\ p.req.key = resp.key
          /\ p.req.record.fileKey = resp.key

\* A step of the cleanup job that removes at least one row: the table becomes
\* what cleanupExpiredRecords leaves of it, and no request moves.
SweepStep ==
    /\ files' # files
    /\ files' = cleanupExpiredRecords(files, now)
    /\ now' = now /\ blobs' = blobs /\ pending' = pending /\ resp' = resp

\* The keys whose row the cleanup job has removed: keys of an account that
\* never reads or deletes, whose upload is over, whose object is stored and
\* whose row is gone.
SweptAway ==
    {k \in DOMAIN blobs \ DOMAIN files :
        /\ k.owner \notin {toLowerCase(a) : a \in ReadingAddrs}
        /\ \A p \in PendingSet : p.req.key # k}

\* C13: when the cleanup job has run at server time `now`, the ledger holds no
\* row whose expiry is earlier than `now`.
SweepRemovesAllExpired ==
    [][ SweepStep => \A k \in DOMAIN files' : ParseDate(files'[k].expiresAt) >= now ]_vars

\* The cleanup job has removed a row, and the ledger holds a row whose expiry
\* is earlier than the server time and which the cleanup job, run at this
\* instant, leaves in the table: it expired earlier on the same day.
ExpiredRowLeftBySweep ==
    /\ SweptAway # {}
    /\ cleanupExpiredRecords(files, now) = files
    /\ \E k \in DOMAIN files :
          /\ ParseDate(files[k].expiresAt) < now
          /\ files[k].expiresAt.date = SqliteDatetimeNow(now).date

\* C14: whatever the requests around it do, the cleanup job removes only rows
\* whose stored expiry is earlier than the server time at which it runs, and
\* it changes no row that it keeps.
SweepRemovesOnlyExpired ==
    [][ SweepStep =>
            /\ \A k \in DOMAIN files \ DOMAIN files' : ParseDate(files[k].expiresAt) < now
            /\ \A k \in DOMAIN files' : k \in DOMAIN files /\ files'[k] = files[k]
      ]_vars

\* A row was renewed for the first time on a day after its expiry, and it is
\* in the ledger with the renewed expiry, while the row of a key that was
\* stored no earlier has been removed by the cleanup job: that row expired no
\* earlier than the renewed row did before its renewal, so the cleanup job
\* ran after the renewal and kept the renewed row.
RenewedRowKeptBySweep ==
    \E p \in PendingSet :
        /\ p.pc = "settle" /\ p.req.op = "renew"
        /\ p.req.oldExpires
              = toISOString(AddDays(ParseDate(p.req.record.uploadedAt), expirationDays))
        /\ TextLess(p.req.oldExpires, SqliteDatetimeNow(now))
        /\ p.req.key \in DOMAIN files
        /\ files[p.req.key].expiresAt = p.req.newExpires
        /\ ParseDate(p.req.newExpires) >= now
        /\ \E k \in SweptAway : k.ts >= ParseDate(p.req.record.uploadedAt)

\* C15: a Read that is answered 200 carries the bytes and the content type of
\* the Upload that created the row of its key (the Upload whose file name the
\* row records).
ReadReturnsUploaded ==
    (resp.op = "read" /\ resp.status = 200) =>
        \E file \in UploadFiles :
            /\ file.name = resp.record.originalFilename
            /\ resp.body = file.bytes
            /\ resp.contentType = ContentTypeOf(file)

\* The owner read the key of its upload of "a b" (bytes "hello"), which was
\* answered 200, and received the bytes "world" of its other upload, which
\* was answered 500, under the content type of the first.
ReadReturnsOtherUpload ==
    /\ resp.op = "read" /\ resp.status = 200
    /\ SignedBy(resp, RouteMessage(resp))
    /\ resp.record.ownerAddress = resp.sig.signer
    /\ resp.record.originalFilename = "a b"
    /\ resp.body = "world"
    /\ resp.contentType = "application/octet-stream"

\* The wallet an X-Wallet-Address header names.
DeclaredWallet(addr) ==
    CASE addr = "0xAA" -> "0xaa"
      [] addr = "0xBB" -> "0xbb"
      [] OTHER -> addr

\* The uploads whose handler has inserted its row in this step.
Recorded ==
    {p \in BagToSet(pending') \ BagToSet(pending) :
        p.req.op = "upload" /\ "row_insert" \in p.req.effects}

\* C16: an Upload that succeeds adds exactly one row to the ledger, under the
\* key it answers, owned by the wallet the request named, with uploadedAt the
\* server time of the insertion and expiresAt that time plus the configured
\* lease; the key and the expiry it answers are those of the row; rows enter
\* the ledger in no other way, and every Upload answered 200 has inserted its
\* row and answers that row's key and expiry.
UploadCreatesLease ==
    [][ /\ \A p \in Recorded :
              /\ p.req.key \notin DOMAIN files
              /\ DOMAIN files' = DOMAIN files \cup {p.req.key}
              /\ \A k \in DOMAIN files : files'[k] = files[k]
              /\ files'[p.req.key].fileKey = p.req.key
              /\ files'[p.req.key].ownerAddress = DeclaredWallet(p.req.addr)
              /\ ParseDate(files'[p.req.key].uploadedAt) = now
              /\ ParseDate(files'[p.req.key].expiresAt) = now + expirationDays * TicksPerDay
              /\ p.req.status = 200
              /\ p.req.record.fileKey = p.req.key
              /\ p.req.record.expiresAt = files'[p.req.key].expiresAt
              /\ p.req.record.uploadedAt = files'[p.req.key].uploadedAt
        /\ (DOMAIN files' \ DOMAIN files # {}) => Recorded # {}
        /\ (resp' # resp /\ resp'.op = "upload" /\ resp'.status = 200) =>
              /\ "row_insert" \in resp'.effects
              /\ \E p \in PendingSet : p.pc = "settle" /\ p.req = resp'
      ]_vars

\* On a server whose lease is above the default, an upload whose key was
\* made at one server time and whose row was inserted at a later one was
\* answered 200, and the ledger holds the row it answered.
UploadCreatesLeaseWitness ==
    /\ resp.op = "upload" /\ resp.status = 200
    /\ expirationDays > DefaultExpirationDays
    /\ resp.key \in DOMAIN files
    /\ files[resp.key] = [resp.record EXCEPT !.ownerAddress = DeclaredWallet(resp.addr)]
    /\ resp.addr # DeclaredWallet(resp.addr)
    /\ ParseDate(resp.record.uploadedAt) > resp.key.ts

\* The answer to an Upload whose object was stored and whose INSERT met a row
\* of the same key.
CreateOnExistingKey ==
    /\ resp' # resp /\ resp'.op = "upload"
    /\ "blob_put" \in resp'.effects /\ "row_insert" \notin resp'.effects
    /\ resp'.key \in DOMAIN files

\* C17: creating the row of a key that already has one fails with a Conflict
\* outcome, an error of its own and not the 500 of an upstream failure, and
\* leaves the ledger, the existing row included, as it was.
CreateOnExistingKeyConflicts ==
    [][ CreateOnExistingKey =>
            /\ files' = files
            /\ resp'.status >= 400 /\ resp'.status # 500
      ]_vars

\* An upload whose key already had a row was answered 500 after it had
\* replaced the object of that key: the row still names the file "a b" of the
\* first upload and the object holds the bytes of the second.
CollisionAnsweredAsFailure ==
    /\ resp.op = "upload" /\ resp.status = 500
    /\ "blob_put" \in resp.effects /\ "row_insert" \notin resp.effects
    /\ resp.key \in DOMAIN files /\ resp.key \in DOMAIN blobs
    /\ files[resp.key].originalFilename = "a b"
    /\ blobs[resp.key].value = Base64Encode("world")

\* A response to a request on a signature-gated route that named a wallet and
\* carried a signature which does not verify for that wallet and the route's
\* message: malformed input, another wallet's signature, another message.
UnverifiedSignature(r) ==
    /\ r.op \in {"read", "list", "info", "delete", "renew"}
    /\ r.addr # NoHeader
    /\ r.sig.kind # "missing"
    /\ ~SignedBy(r, RouteMessage(r))

\* C18: on Read, List, Info, Delete and Renew a signature that does not
\* verify, malformed input included, is answered 401, not 500 and not 403,
\* and the request leaves the ledger and the blob store as they were.
UnverifiedSignatureUnauthenticated ==
    [][ (resp' # resp /\ UnverifiedSignature(resp')) =>
            /\ resp'.status = 401
            /\ resp'.effects = {}
            /\ files' = files /\ blobs' = blobs
      ]_vars

\* A Renew of an existing key with a malformed signature and without a
\* payment proof was answered with the payment challenge.
MalformedSignatureChallenged ==
    /\ resp.op = "renew" /\ resp.sig = MalformedSig /\ resp.addr # NoHeader
    /\ resp.proof = "none"
    /\ resp.key \in DOMAIN files
    /\ resp.status = 402

\* C19: a call of uploadBuffer or renewFile sends its first request without
\* a payment, sends a second request only after a 402 answer to the first and
\* with the payment created for the challenge of that answer, sends no third
\* request, and ends with a result once the second request is answered:
\* success on an answer in the 2xx range, failure on any other.
ClientRetriesOnce ==
    /\ Len(client.sent) <= 2
    /\ Len(client.answers) <= Len(client.sent)
    /\ Len(client.sent) >= 1 => client.sent[1] = [op |-> client.op, payment |-> [challenge |-> 0]]
    /\ Len(client.sent) = 2 =>
          /\ Len(client.answers) >= 1 /\ client.answers[1].status = 402
          /\ client.sent[2].op = client.op
          /\ client.sent[2].payment.challenge = client.answers[1].challenge
          /\ client.sent[2].payment.challenge = client.challenges
          /\ client.challenges > 0
    /\ Len(client.answers) = 2 => client.pc = "done"
    /\ client.pc = "done" <=> client.result \in {"success", "failure"}
    /\ client.result = "success" =>
          /\ client.answers # <<>>
          /\ client.answers[Len(client.answers)].status = 200

\* In its second call the client was answered 402 twice: it has sent two
\* requests, the second with the payment for the challenge of this call, and
\* the call has ended in failure.
ClientRetriesOnceWitness ==
    /\ client.calls = 2 /\ client.pc = "done" /\ client.result = "failure"
    /\ Len(client.sent) = 2 /\ Len(client.answers) = 2
    /\ client.answers[1].status = 402 /\ client.answers[2].status = 402
    /\ client.sent[2].payment.challenge = client.answers[1].challenge
    /\ client.answers[1].challenge > 1

----------------------------------------------------------------------------
(* Renewals and settled payments *)

\* How many renewals the row of a key shows: the lease beyond the one its
\* upload gave, in renewals of RenewDays (the clock stands still).
Extensions(fileKey) ==
    (ParseDate(files[fileKey].expiresAt) - ParseDate(files[fileKey].uploadedAt)
        - expirationDays * TicksPerDay) \div (RenewDays * TicksPerDay)

\* The payments that stand for renewals of a key: settled ones, and those of
\* renewals whose settlement is still to come.
RenewalPayments(fileKey) ==
    {s.proof : s \in {t \in settledProofs : t.op = "renew" /\ t.key = fileKey}}
        \cup {p.req.proof : p \in {q \in PendingSet : q.pc = "settle" /\ q.req.op = "renew"
                                                        /\ q.req.key = fileKey}}

\* C21: a renewal that reuses a payment proof does not extend the lease a
\* second time: the renewals a row shows never exceed the distinct payments
\* settled, or about to be settled, for renewals of its key.
RenewalsWithinPayments ==
    \A fileKey \in DOMAIN files : Extensions(fileKey) <= Cardinality(RenewalPayments(fileKey))

\* C21 (witness of the violation): a renewal is answered 402 because its
\* proof was settled before, and the row keeps the lease it added.
ReusedProofExtended ==
    /\ resp.op = "renew"
    /\ resp.status = 402
    /\ resp.proof \in SettledIds
    /\ "row_update" \in resp.effects
    /\ resp.key \in DOMAIN files
    /\ Extensions(resp.key) > Cardinality(RenewalPayments(resp.key))

----------------------------------------------------------------------------
(* The blob store client *)

\* Call j follows call i with no put or delete of the same key in between.
Undisturbed(i, j) ==
    /\ i < j
    /\ \A k \in (i + 1)..(j - 1) :
            ~(client.sent[k].key = client.sent[i].key /\ client.sent[k].op \in {"s3_put", "s3_delete"})

----------------------------------------------------------------------------
(* Simultaneous renewals *)

\* The renewals that have updated the row and are waiting for their payment
\* to settle, and the one answered 200.
RenewalsInFlight ==
    {p.req : p \in {q \in PendingSet : q.pc = "settle" /\ q.req.op = "renew"}}
        \cup (IF resp.op = "renew" /\ resp.status = 200 THEN {resp} ELSE {})

\* C23 (amended): no renewal is lost.  Each renewal adds RenewDays to the
\* later of the server time and the expiry it read, the row keeps at least
\* what it wrote, and of two renewals of one key in flight together one has
\* read what the other wrote.
NoRenewalLost ==
    /\ \A p \in PendingSet : p.req.op = "renew" => CopiesIn(p, pending) = 1
    /\ \A r \in RenewalsInFlight :
            /\ ParseDate(r.newExpires) >= AddDays(ParseDate(r.oldExpires), RenewDays)
            /\ r.key \in DOMAIN files
            /\ ParseDate(files[r.key].expiresAt) >= ParseDate(r.newExpires)
    /\ \A r, q \in RenewalsInFlight :
            (r # q /\ r.key = q.key) =>
                \/ ParseDate(q.oldExpires) >= ParseDate(r.newExpires)
                \/ ParseDate(r.oldExpires) >= ParseDate(q.newExpires)

\* C23 (as stated): two renewals of one key in flight together have read the
\* same expiresAt, and the row holds what one renewal adds to it.
SimultaneousRenewalsLoseOne ==
    \A r, q \in RenewalsInFlight :
        (r # q /\ r.key = q.key) =>
            /\ r.oldExpires = q.oldExpires
            /\ ParseDate(files[r.key].expiresAt) = AddDays(ParseDate(r.oldExpires), RenewDays)

\* C23 (witness): a renewal answered 200 and a second one of the same key that
\* ran before that answer left: the second read what the first wrote, and the
\* row is two renewals past the expiry the first one read.
SimultaneousRenewalsBothCount ==
    \E p \in PendingSet :
        /\ p.pc = "settle" /\ p.req.op = "renew"
        /\ resp.op = "renew" /\ resp.status = 200
        /\ resp.key = p.req.key
        /\ p.req.oldExpires = resp.newExpires
        /\ resp.key \in DOMAIN files
        /\ ParseDate(files[resp.key].expiresAt) = AddDays(ParseDate(resp.oldExpires), 2 * RenewDays)

----------------------------------------------------------------------------
(* What a second caller sees of a request in progress *)

\* C24: whatever requests are in flight, a key that has a row has its blob,
\* stored under the content type the row records.
RowHasItsBlob ==
    \A fileKey \in DOMAIN files :
        /\ fileKey \in DOMAIN blobs
        /\ blobs[fileKey].content_type = files[fileKey].contentType

\* C24 (witness of the violation): a Read found the row of a key and no blob,
\* answered 404 and removed the row, while the Delete that had removed the
\* blob was still to remove the row.
ReadSawDeleteHalfDone ==
    /\ resp.op = "read" /\ resp.status = 404
    /\ "row_delete" \in resp.effects
    /\ \E p \in PendingSet :
            /\ p.pc = "s3_delete_done" /\ p.req.op = "delete"
            /\ p.req.key = resp.key
            /\ "blob_delete" \in p.req.effects

----------------------------------------------------------------------------
(* The generic failure *)

\* C25: a 500 is the answer to an upstream failure only: an Upload answered
\* 500 is one whose object the blob store did not store, and a key that
\* collides with a row of the ledger is answered otherwise.
GenericFailureOnlyUpstream ==
    (resp.op = "upload" /\ resp.status = 500) => "blob_put" \notin resp.effects

\* C25 (witness of the violation): the blob store stored the object of an
\* upload of "a b", the INSERT met the row that the upload of "a_b" had made
\* under the same key, and the answer is the 500 of an upstream failure.
CollisionAnsweredAsUpstreamFailure ==
    /\ resp.op = "upload" /\ resp.status = 500
    /\ "blob_put" \in resp.effects
    /\ resp.key \in DOMAIN files
    /\ files[resp.key].originalFilename = "a_b"
    /\ resp.key \in DOMAIN blobs
    /\ blobs[resp.key].value = Base64Encode("hello")

----------------------------------------------------------------------------
(* The order of a Delete *)

\* C26: a Delete that passed its checks is answered after the blob store has
\* answered its delete: when the store removed the object or reported that
\* it removed none, the row is removed and the answer is 200; the row is left
\* only when the store threw.
BlobDeleteThenRowDelete ==
    [][ (resp' # resp /\ resp'.op = "delete" /\ resp'.status \notin {400, 401, 403, 404}) =>
            \E p \in PendingSet :
                /\ p.pc = "s3_delete_done"
                /\ p.req.key = resp'.key
                /\ pending' = pending (-) SetToBag({p})
                /\ p.result \in {"true", "false"} =>
                        /\ resp'.status = 200
                        /\ files' = deleteRecord(files, resp'.key)
                /\ p.result = "throws" => (resp'.status = 500 /\ files' = files)
      ]_vars

\* C26 (witness): a Delete is answered 200 and has removed the row of its key
\* although the blob store had reported that it removed no object.
AbsentBlobDeleteSucceeds ==
    /\ resp.op = "delete" /\ resp.status = 200
    /\ "row_delete" \in resp.effects
    /\ "blob_delete" \notin resp.effects
    /\ resp.key \notin DOMAIN files

----------------------------------------------------------------------------
(* Metadata fetch *)

\* The status at which the checks that Read and Info share reject request r
\* in the current state, 0 when they let it pass.
AuthorizationOutcome(r) ==
    IF r.addr = NoHeader \/ r.sig.kind = "missing" THEN 400
    ELSE IF ~SignedBy(r, [text |-> "", key |-> r.key]) THEN 401
    ELSE IF r.key \notin DOMAIN files THEN 404
    ELSE IF files[r.key].ownerAddress # DeclaredWallet(r.addr) THEN 403
    ELSE 0

\* C27: a metadata fetch is rejected where a Read is (400, then 401 for the
\* signature over the key, then 404, then 403); past these checks it answers
\* 200 with the row and isExpired telling whether the lease has run out, where
\* a Read of an expired row answers 410; and it changes neither the ledger
\* nor the blob store.
MetadataFetchReadOnly ==
    [][ /\ (resp' # resp /\ resp'.op = "info") =>
                /\ files' = files /\ blobs' = blobs /\ pending' = pending
                /\ IF AuthorizationOutcome(resp') # 0
                      THEN resp'.status = AuthorizationOutcome(resp')
                      ELSE /\ resp'.status = 200
                           /\ resp'.record = files[resp'.key]
                           /\ resp'.isExpired = (now > ParseDate(files[resp'.key].expiresAt))
        /\ (resp' # resp /\ resp'.op = "read" /\ pending' = pending) =>
                IF AuthorizationOutcome(resp') # 0
                   THEN resp'.status = AuthorizationOutcome(resp')
                   ELSE resp'.status = 410 /\ now > ParseDate(files[resp'.key].expiresAt)
      ]_vars

\* C27 (witness): the owner's metadata fetch of a key whose lease has run out
\* is answered 200 with isExpired = true, and the row is still in the ledger.
ExpiredMetadataFetched ==
    /\ resp.op = "info" /\ resp.status = 200
    /\ resp.isExpired
    /\ resp.key \in DOMAIN files
    /\ files[resp.key] = resp.record
    /\ now > ParseDate(files[resp.key].expiresAt)

----------------------------------------------------------------------------
(* The order of an Upload *)

\* C28: a row enters the ledger only in the step of an Upload whose put the
\* blob store has answered with success; an Upload whose put failed or threw
\* is answered 500 and inserts no row.
BlobStoredBeforeRow ==
    [][ /\ \A fileKey \in DOMAIN files' \ DOMAIN files :
                \E p \in PendingSet :
                    /\ p.pc = "s3_put_done" /\ p.req.op = "upload"
                    /\ p.req.key = fileKey
                    /\ p.result = "true"
                    /\ "blob_put" \in p.req.effects
        /\ \A p \in PendingSet :
                (p.pc = "s3_put_done" /\ p.result # "true" /\ pending' = pending (-) SetToBag({p})) =>
                    /\ resp' = Answer(p.req, 500)
                    /\ resp'.effects = {}
                    /\ files' = files
      ]_vars

\* C28 (witness): an Upload whose put the blob store refused is answered 500,
\* and neither a row nor an object exists under its key.
FailedPutLeavesNoRow ==
    /\ resp.op = "upload" /\ resp.status = 500
    /\ resp.effects = {}
    /\ resp.key \notin DOMAIN files
    /\ resp.key \notin DOMAIN blobs

----------------------------------------------------------------------------
(* Uploads that are refused *)

\* C29: an Upload that carries a file above the size limit and no payment
\* proof is answered 400, the payload being checked before payment is asked.
OversizeUploadBadRequestFirst ==
    [][ \A addr \in ClientAddrs :
            Upload(addr, BigFile, "none", "ok") => resp'.status = 400
      ]_vars

\* The Upload requests that the handler refuses as bad requests.
BadUpload(addr, file) == addr = NoHeader \/ ~file.present \/ file.size > MaxSizeBytes

\* C30: an Upload without the identity header, without a file or with a file
\* above the size limit, once past the payment gate, is answered 400; and an
\* Upload answered 400 has stored no object, inserted no row and left no
\* request suspended: ledger and blob store are as before.
BadUploadWritesNothing ==
    [][ /\ \A addr \in HeaderAddrs, file \in UploadFiles \cup {NoFile, BigFile} :
                (BadUpload(addr, file) /\ Upload(addr, file, "valid", "ok")) =>
                    resp'.status = 400
        /\ (resp' # resp /\ resp'.op = "upload" /\ resp'.status = 400) =>
                /\ files' = files /\ blobs' = blobs /\ pending' = pending
                /\ resp'.effects = {}
                /\ \E addr \in HeaderAddrs, file \in UploadFiles \cup {NoFile, BigFile} :
                        BadUpload(addr, file) /\ Upload(addr, file, "valid", "ok")
      ]_vars

\* C30 (witness): an Upload that named its wallet and paid is answered 400
\* for its file, and the ledger and the blob store hold what an earlier
\* upload had put there.
BadUploadRefused ==
    /\ resp.op = "upload" /\ resp.status = 400
    /\ resp.addr # NoHeader
    /\ resp.proof = "valid"
    /\ resp.effects = {}
    /\ pending = EmptyBag
    /\ DOMAIN files # {} /\ DOMAIN files = DOMAIN blobs

----------------------------------------------------------------------------
(* What changes in a row *)

\* The renewals that updated the row of fileKey in this step.
RenewedNow(fileKey) ==
    {p \in BagToSet(pending') :
        /\ p.pc = "settle" /\ p.req.op = "renew" /\ p.req.key = fileKey
        /\ "row_update" \in p.req.effects
        /\ p.req.oldExpires = files[fileKey].expiresAt
        /\ p.req.newExpires = files'[fileKey].expiresAt
        /\ CopiesIn(p, pending') = CopiesIn(p, pending) + 1}

\* C31: in every step a row that stays in the ledger keeps its key, owner,
\* file name, content type, size and uploadedAt; its expiresAt changes only in
\* the step of a Renew of its key.
RowFieldsImmutable ==
    [][ \A fileKey \in DOMAIN files \cap DOMAIN files' :
            /\ files'[fileKey] = [files[fileKey] EXCEPT !.expiresAt = files'[fileKey].expiresAt]
            /\ files'[fileKey].fileKey = fileKey
            /\ files'[fileKey].expiresAt # files[fileKey].expiresAt => RenewedNow(fileKey) # {}
      ]_vars

\* C31 (witness): an upload of "a_b" was answered 500 because its key had the
\* row of an earlier upload of "a b"; that row has been renewed since it was
\* made and still carries the name, type and date of the first upload.
RenewedRowKeepsItsFields ==
    /\ resp.op = "upload" /\ resp.status = 500 /\ "blob_put" \in resp.effects
    /\ resp.key \in DOMAIN files
    /\ files[resp.key].originalFilename = "a b"
    /\ files[resp.key].contentType = "application/octet-stream"
    /\ files[resp.key].ownerAddress = "0xaa"
    /\ ParseDate(files[resp.key].expiresAt)
          = AddDays(ParseDate(files[resp.key].uploadedAt), expirationDays + RenewDays)

----------------------------------------------------------------------------
(* Spellings of the owner *)

\* The keys whose row names the wallet of address addr, however addr is spelled.
KeysOwnedBy(addr) == {k \in DOMAIN files : files[k].ownerAddress = DeclaredWallet(addr)}

\* C32: a caller whose address differs from the stored owner in letter case
\* at most, and whose signature verifies, is never answered 403 by Read,
\* Info, Delete or Renew on the key, gets the row from Info, and gets from
\* List every row of the wallet (none of which has expired).
OwnershipIgnoresCase ==
    [][ (resp' # resp /\ SignedBy(resp', RouteMessage(resp'))) =>
            /\ (resp'.op \in {"read", "info", "delete", "renew"} /\ resp'.key \in KeysOwnedBy(resp'.addr))
                    => resp'.status # 403
            /\ (resp'.op = "info" /\ resp'.key \in KeysOwnedBy(resp'.addr))
                    => (resp'.status = 200 /\ resp'.record = files[resp'.key])
            /\ resp'.op = "list"
                    => /\ resp'.status = 200
                       /\ {resp'.list[i].fileKey : i \in 1..Len(resp'.list)} = KeysOwnedBy(resp'.addr)
      ]_vars

\* C32 (witness): the caller spelled its address "0xAA", the row stores the
\* owner as "0xaa", and List answered with that row.
ListForOtherSpelling ==
    /\ resp.op = "list" /\ resp.status = 200
    /\ resp.addr = "0xAA"
    /\ Len(resp.list) >= 1
    /\ resp.list[1].fileKey \in DOMAIN files
    /\ files[resp.list[1].fileKey].ownerAddress = "0xaa"
    /\ files[resp.list[1].fileKey].ownerAddress # resp.addr

----------------------------------------------------------------------------
(* The cleanup timer *)

TimerKeys == {GenerateFileKey(addr, 0, ReplayFile.name) : addr \in OverlapAddrs}

Lapsed(fileKey) == fileKey \in DOMAIN files /\ now > ParseDate(files[fileKey].expiresAt)

\* C33: a row whose expiry has passed leaves the ledger, unless it is renewed,
\* through the cleanup job alone: no request reads or deletes the key.
LapsedRowsSwept ==
    \A fileKey \in TimerKeys : Lapsed(fileKey) ~> ~Lapsed(fileKey)

\* C33 (witness): time has passed, no request is in progress, the object of
\* an upload is in the blob store and its row has left the ledger, which in
\* the absence of reads and deletes only the cleanup job brings about.
RowSweptByTimer ==
    /\ now > 0
    /\ pending = EmptyBag /\ resp = NoRequest
    /\ \E fileKey \in TimerKeys : fileKey \in DOMAIN blobs /\ fileKey \notin DOMAIN files

----------------------------------------------------------------------------
(* The form of a key *)

\* C34: the key of every row is `{owner}/{timestamp}-{name}` with the row's
\* own lower-cased owner as the segment before the first `/`.
KeyPrefixIsOwner ==
    \A fileKey \in DOMAIN files :
        /\ files[fileKey].fileKey = fileKey
        /\ Len(KeySegments(fileKey)) = 2
        /\ KeySegments(fileKey)[1] = files[fileKey].ownerAddress

\* C34 (witness of the violation): a row whose owner is the string the upload
\* named, while the first segment of its key is the address of a wallet.
KeyPrefixOfAnotherWallet ==
    \E fileKey \in DOMAIN files :
        /\ files[fileKey].ownerAddress = SlashedAddr
        /\ KeySegments(fileKey)[1] \in Wallets
        /\ KeySegments(fileKey)[1] # files[fileKey].ownerAddress
        /\ fileKey \in DOMAIN blobs

----------------------------------------------------------------------------
(* A row without its object *)

\* C35: a Read that passed its checks and for which the blob store holds no
\* object is answered 404 and removes the row of the key; and a correctly
\* signed Read, Info, Delete or Renew of a key that has no row is answered 404
\* and creates none.
MissingBlobPurgesRow ==
    [][ /\ \A p \in PendingSet :
                (p.pc = "s3_get_done" /\ p.result = "null" /\ pending' = pending (-) SetToBag({p})) =>
                    /\ resp' # resp
                    /\ resp'.op = "read" /\ resp'.key = p.req.key /\ resp'.status = 404
                    /\ resp'.body = NoBody
                    /\ files' = deleteRecord(files, p.req.key)
                    /\ blobs' = blobs
        /\ (/\ resp' # resp /\ pending' = pending
            /\ resp'.op \in {"read", "info", "delete", "renew"}
            /\ SignedBy(resp', RouteMessage(resp'))
            /\ resp'.key \notin DOMAIN files) =>
                (resp'.status = 404 /\ files' = files /\ blobs' = blobs)
      ]_vars

\* C35 (witness): a Read that had found the row of its key and passed the
\* owner and expiry checks is answered 404 without a body; the blob store
\* holds no object of the key and the row has been removed by this Read.
DriftedRowPurged ==
    /\ resp.op = "read" /\ resp.status = 404
    /\ resp.record # NoRecord
    /\ resp.record.ownerAddress = DeclaredWallet(resp.addr)
    /\ "row_delete" \in resp.effects
    /\ resp.key \notin DOMAIN files
    /\ resp.key \notin DOMAIN blobs
    /\ resp.body = NoBody

----------------------------------------------------------------------------
(* A Delete that the blob store fails *)

\* C36: a Delete is answered 500 exactly when the call of the blob store
\* threw, and that Delete has changed neither the ledger nor the blob store.
FailedBlobDeleteKeepsRow ==
    [][ /\ (resp' # resp /\ resp'.op = "delete" /\ resp'.status = 500) =>
                /\ files' = files /\ blobs' = blobs
                /\ resp'.effects = {}
                /\ \E p \in PendingSet :
                        /\ p.pc = "s3_delete_done" /\ p.result = "throws"
                        /\ p.req.key = resp'.key
                        /\ pending' = pending (-) SetToBag({p})
        /\ \A p \in PendingSet :
                (p.pc = "s3_delete_done" /\ p.result = "throws"
                        /\ pending' = pending (-) SetToBag({p})) =>
                    (resp' = Answer(p.req, 500) /\ files' = files)
      ]_vars

\* C36 (witness): a Delete is answered 500 and the row it had found is in the
\* ledger as it was, with its object in the blob store: the key can be read
\* and the Delete sent again.
FailedDeleteLeftRow ==
    /\ resp.op = "delete" /\ resp.status = 500
    /\ resp.key \in DOMAIN files /\ files[resp.key] = resp.record
    /\ resp.key \in DOMAIN blobs
    /\ pending = EmptyBag

----------------------------------------------------------------------------
(* Renewal of an expired row, and of a purged one *)

\* C37: a paid Renew signed by the owner of a row that the ledger holds,
\* expired or not, sets the expiry RenewDays after the later of the server
\* time and the old expiry, so that the row is unexpired afterwards, and its
\* settled response is 200; the same Renew of a key whose row is gone is
\* answered 404 and writes nothing.
RenewIgnoresExpiry ==
    [][ /\ \A addr \in ClientAddrs, fileKey \in KnownKeys :
                Renew(addr, fileKey, ClientSig(addr, RenewMessage(fileKey)), "valid", "ok") =>
                    IF fileKey \notin DOMAIN files
                    THEN /\ resp'.op = "renew" /\ resp'.status = 404
                         /\ files' = files /\ blobs' = blobs /\ pending' = pending
                    ELSE isOwner(files, fileKey, addr) =>
                         LET old == ParseDate(files[fileKey].expiresAt)
                             base == IF now > old THEN now ELSE old
                         IN  /\ fileKey \in DOMAIN files'
                             /\ files'[fileKey].expiresAt = toISOString(AddDays(base, RenewDays))
                             /\ ~isExpired(files', fileKey, now)
                             /\ \E p \in BagToSet(pending') :
                                    /\ p.pc = "settle" /\ p.req.op = "renew"
                                    /\ p.req.key = fileKey /\ p.req.status = 200
                                    /\ pending' = pending (+) SetToBag({p})
        /\ \A p \in PendingSet :
                (p.req.op = "renew" /\ Settle(p, "settled")) =>
                    (resp'.status = 200 /\ files' = files)
      ]_vars

\* C37 (witness): a Renew was answered 200 for a row that had expired when it
\* arrived (the new expiry counts from a server time after the old expiry),
\* and the key can be read now.
ExpiredRowRenewed ==
    /\ resp.op = "renew" /\ resp.status = 200
    /\ ParseDate(resp.newExpires) > AddDays(ParseDate(resp.oldExpires), RenewDays)
    /\ resp.key \in DOMAIN files /\ resp.key \in DOMAIN blobs
    /\ isOwner(files, resp.key, resp.addr)
    /\ ~isExpired(files, resp.key, now)

\* A Renew is answered 404 for a key whose object the blob store still holds:
\* the row was purged, and the Renew has not brought it back.
PurgedRowNotRenewed ==
    /\ resp.op = "renew" /\ resp.status = 404
    /\ SignedBy(resp, RenewMessage(resp.key))
    /\ resp.key \in DOMAIN blobs /\ resp.key \notin DOMAIN files
    /\ \A p \in PendingSet : p.req.op # "delete"
    /\ resp.effects = {}

----------------------------------------------------------------------------
(* The comparison of the expiry *)

ListedKeys(r) == {r.list[i].fileKey : i \in 1..Len(r.list)}

\* C38: Read answers 410 for its owner's row exactly when the server time is
\* later than the expiry and goes on to fetch the object otherwise, the
\* instant of the expiry included; the metadata fetch reports the row as
\* expired exactly then; List returns a row of the caller exactly
\* when isExpired is false for it at that instant, which is exactly when the
\* server time is not later than the expiry.
ExpiryComparedStrictly ==
    [][ /\ \A addr \in ClientAddrs, fileKey \in DOMAIN files :
                (/\ isOwner(files, fileKey, addr)
                 /\ Read(addr, fileKey, ClientSig(addr, ReadMessage(fileKey)))) =>
                    IF now > ParseDate(files[fileKey].expiresAt)
                    THEN resp'.op = "read" /\ resp'.status = 410
                    ELSE /\ resp' = NoRequest
                         /\ \E p \in BagToSet(pending') :
                                p.pc = "s3_get" /\ p.req.key = fileKey
        /\ \A addr \in ClientAddrs, fileKey \in DOMAIN files :
                (/\ isOwner(files, fileKey, addr)
                 /\ Info(addr, fileKey, ClientSig(addr, InfoMessage(fileKey)))) =>
                    (resp'.isExpired <=> now > ParseDate(files[fileKey].expiresAt))
        /\ \A addr \in ClientAddrs :
                List(addr, ClientSig(addr, ListMessage)) =>
                    \A fileKey \in DOMAIN files :
                        isOwner(files, fileKey, addr) =>
                            /\ fileKey \in ListedKeys(resp') <=> ~isExpired(files, fileKey, now)
                            /\ isExpired(files, fileKey, now)
                                    <=> now > ParseDate(files[fileKey].expiresAt)
      ]_vars

\* C38 (witness): a Read is answered 200 at the instant of the expiry of the
\* row it read.
ReadAtTheInstantOfExpiry ==
    /\ resp.op = "read" /\ resp.status = 200
    /\ resp.key \in DOMAIN files
    /\ files[resp.key] = resp.record
    /\ now = ParseDate(resp.record.expiresAt)

\* A listing at the instant of the expiry of a row contains the row.
ListedAtTheInstantOfExpiry ==
    /\ resp.op = "list" /\ resp.status = 200
    /\ \E fileKey \in ListedKeys(resp) :
            fileKey \in DOMAIN files /\ now = ParseDate(files[fileKey].expiresAt)

\* A listing a tick after the expiry of a row of the caller leaves it out.
UnlistedAfterExpiry ==
    /\ resp.op = "list" /\ resp.status = 200
    /\ \E fileKey \in DOMAIN files \ ListedKeys(resp) :
            /\ isOwner(files, fileKey, resp.addr)
            /\ now = ParseDate(files[fileKey].expiresAt) + 1

----------------------------------------------------------------------------
(* What a caller who is not the owner learns *)

\* The answer to a caller who is not the owner of `fileKey`: it tells whether
\* the ledger holds a row for the key, and the request writes nothing.
NonOwnerAnswer(fileKey) ==
    /\ resp'.key = fileKey
    /\ resp'.status = IF fileKey \in DOMAIN files THEN 403 ELSE 404
    /\ resp'.record = NoRecord /\ resp'.body = NoBody
    /\ files' = files /\ blobs' = blobs /\ pending' = pending

\* C39: Read, the metadata fetch and Delete answer a caller whose signature
\* verifies and who is not the owner of the key with 404 when the ledger has
\* no row for the key and with 403 when it has one.
NonOwnerLearnsExistence ==
    [][ \A addr \in Addrs, fileKey \in KnownKeys :
            ~isOwner(files, fileKey, addr) =>
                /\ \A sig \in SignaturesOn(fileKey) :
                        (/\ verifyMessage(addr, ReadMessage(fileKey), sig) = "true"
                         /\ Read(addr, fileKey, sig)) => NonOwnerAnswer(fileKey)
                /\ \A sig \in SignaturesOn(fileKey) :
                        (/\ verifyMessage(addr, InfoMessage(fileKey), sig) = "true"
                         /\ Info(addr, fileKey, sig)) => NonOwnerAnswer(fileKey)
                /\ \A sig \in SignaturesOn(fileKey) :
                        (/\ verifyMessage(addr, DeleteMessage(fileKey), sig) = "true"
                         /\ Delete(addr, fileKey, sig)) => NonOwnerAnswer(fileKey)
      ]_vars

\* C39 (witness): a Delete signed by a wallet that owns no row of the key is
\* answered 403, and the row of the key belongs to another wallet.
NonOwnerToldKeyExists ==
    /\ resp.op = "delete" /\ resp.status = 403
    /\ SignedBy(resp, RouteMessage(resp))
    /\ resp.key \in DOMAIN files
    /\ files[resp.key].ownerAddress # DeclaredWallet(resp.addr)

\* The same caller is answered 404 for a key without a row.
NonOwnerToldKeyAbsent ==
    /\ resp.op \in {"read", "info", "delete"} /\ resp.status = 404
    /\ SignedBy(resp, RouteMessage(resp))
    /\ resp.key \notin DOMAIN files
    /\ resp.effects = {}
    /\ resp.key.owner # DeclaredWallet(resp.addr)

\* A Read and a metadata fetch of a non-owner are answered 403 as well.
NonOwnerReadToldKeyExists ==
    /\ resp.op \in {"read", "info"} /\ resp.status = 403
    /\ SignedBy(resp, RouteMessage(resp))
    /\ resp.key \in DOMAIN files
    /\ files[resp.key].ownerAddress # DeclaredWallet(resp.addr)

----------------------------------------------------------------------------
(* A Renew during a Delete *)

\* The Deletes of `fileKey` that have passed the ownership check and have not
\* answered yet.
DeletesInFlight(fileKey) ==
    {p \in PendingSet : p.req.op = "delete" /\ p.req.key = fileKey}

\* C40: while a Delete of a key is past its ownership check and has not
\* answered, a paid Renew of the key by its owner extends the row and goes on
\* to settlement with 200; and when the blob store has returned, the Delete
\* removes the row and answers 200 whatever has happened to the row since it
\* was looked up, so that no row of the key is left.
RenewDuringDeleteIsLost ==
    [][ /\ \A addr \in OverlapAddrs, fileKey \in DOMAIN files :
                (/\ DeletesInFlight(fileKey) # {}
                 /\ isOwner(files, fileKey, addr)
                 /\ Renew(addr, fileKey, ClientSig(addr, RenewMessage(fileKey)), "valid", "ok")) =>
                    /\ fileKey \in DOMAIN files'
                    /\ ParseDate(files'[fileKey].expiresAt)
                            = AddDays(ParseDate(files[fileKey].expiresAt), RenewDays)
                    /\ \E q \in BagToSet(pending') :
                            /\ q.pc = "settle" /\ q.req.op = "renew"
                            /\ q.req.key = fileKey /\ q.req.status = 200
                            /\ pending' = pending (+) SetToBag({q})
        /\ \A p \in PendingSet :
                (p.pc = "s3_delete_done" /\ p.result # "throws" /\ DeleteRespond(p)) =>
                    /\ p.req.key \notin DOMAIN files'
                    /\ resp'.op = "delete" /\ resp'.status = 200
      ]_vars

\* C40 (witness): a Renew has been answered 200 for the row that a Delete,
\* still waiting for the blob store, had looked up before the renewal; the
\* ledger holds the renewed row.
RenewedWhileDeleteInFlight ==
    /\ resp.op = "renew" /\ resp.status = 200
    /\ resp.key \in DOMAIN files
    /\ files[resp.key].expiresAt = resp.newExpires
    /\ \E p \in DeletesInFlight(resp.key) :
            /\ p.pc = "s3_delete"
            /\ p.req.record.expiresAt = resp.oldExpires
            /\ resp.oldExpires # resp.newExpires

\* A renewal is reported as settled, no request is in flight, and the ledger
\* holds no row of the key: a Delete has removed the renewed row.
RenewalReportedRowGone ==
    /\ resp.op = "renew" /\ resp.status = 200
    /\ "row_update" \in resp.effects
    /\ resp.key \notin DOMAIN files
    /\ pending = EmptyBag

====
